---- MODULE Spec2Model ----
(***************************************************************************)
(* Torarr: the Tor control-port client (internal/tor/control.go), the      *)
(* HTTP health handlers built on it (internal/health/handlers.go) and the  *)
(* egress verifier (internal/health/external.go).                          *)
(*                                                                         *)
(* Spec      : request tasks running the HTTP handlers concurrently over   *)
(*             one shared tor.Client, the readiness evaluator and the      *)
(*             webhook hand-off.                                           *)
(* SpecLink  : tasks calling the methods of one tor.Client concurrently    *)
(*             (SpecLinkFair: every task keeps taking its steps).          *)
(* SpecCheck : one call of ExternalChecker.Check over a list of endpoints  *)
(*             (SpecCheckFair: the call keeps taking its steps).           *)
(* SpecReady : a /ready request around that call, with /ping beside it.    *)
(* SpecNotify: events handed to Handler.sendWebhook and the delivery       *)
(*             goroutines it starts.                                       *)
(***************************************************************************)
EXTENDS Integers, Sequences, FiniteSets, TLC

\* ------------------------------------------------------------------ bounds
\* number of HTTP request tasks that run concurrently
NumTasks == 2
\* webhook delivery goroutines that may be in flight before new requests wait
MaxInFlight == 2
\* longest endpoint list given to the egress verifier
MaxEndpoints == 2

Tasks == 1..NumTasks

VARIABLES
    \* ---- configuration (fixed after NewHandler / NewClient)
    password,        \* c.password != ""
    webhook,         \* h.webhook != nil
    webhookEvents,   \* h.webhookEvents
    \* ---- tor.Client
    conn,            \* c.conn: "nil", or the state of the connection it refers to
    authed,          \* AUTHENTICATE was accepted on the connection c.conn refers to
    mu,              \* c.mu: 0 when free, else the task holding it
    inflight,        \* tasks that wrote a command and have not finished reading its reply
    rx,              \* reply lines the peer has sent for the exchange in flight
    \* ---- health.Handler
    previousHealthy, \* h.previousHealthy: "unset", TRUE or FALSE
    healthMu,        \* h.healthMu: 0 when free, else the task holding it
    inFlightHooks,   \* webhook goroutines started and not yet finished
    \* ---- request tasks
    pc,              \* position of each task in its handler
    loc,             \* the handler's local variables
    mainPc,          \* position of main()
    \* ---- ExternalChecker.Check
    e_endpoints,     \* e.endpoints
    e_pc,            \* position inside performCheck / checkEndpoint
    e_idx,           \* index of the endpoint performCheck is at
    e_retry,         \* checkEndpoint's retry counter
    e_backoff,       \* checkEndpoint's backoff, in seconds
    e_slept,         \* the sleeps made before the attempts of the current endpoint
    e_attempts,      \* the probes made so far: endpoint index, retry, and the result
    e_result,        \* the value Check returned, or NoResult
    e_resp           \* the response Ready wrote, or NoResponse

linkVars == <<conn, authed, mu, inflight, rx>>
handlerVars == <<previousHealthy, healthMu, inFlightHooks>>
configVars == <<password, webhook, webhookEvents>>
taskVars == <<pc, loc, mainPc>>
egressVars ==
    <<e_endpoints, e_pc, e_idx, e_retry, e_backoff, e_slept, e_attempts, e_result, e_resp>>
vars == <<configVars, linkVars, handlerVars, taskVars, egressVars>>

\* ------------------------------------------------------------------ replies
\* A character string the code inspects is a sequence of one-character strings.
Digits == {"0", "1", "2", "3", "4", "5", "6", "7", "8", "9"}

DigitVal(ch) ==
    CASE ch = "0" -> 0 [] ch = "1" -> 1 [] ch = "2" -> 2 [] ch = "3" -> 3
      [] ch = "4" -> 4 [] ch = "5" -> 5 [] ch = "6" -> 6 [] ch = "7" -> 7
      [] ch = "8" -> 8 [] ch = "9" -> 9

RECURSIVE DigitsVal(_)
DigitsVal(ds) ==
    IF ds = <<>> THEN 0 ELSE 10 * DigitsVal(SubSeq(ds, 1, Len(ds) - 1)) + DigitVal(ds[Len(ds)])

\* strconv.Atoi / strconv.ParseInt(s, 10, 64): an optional sign and at least one
\* digit, nothing else; [ok |-> FALSE] stands for a non-nil err
Atoi(s) ==
    LET signed == Len(s) > 0 /\ s[1] \in {"+", "-"}
        ds == IF signed THEN Tail(s) ELSE s
    IN  IF ds # <<>> /\ \A i \in 1..Len(ds) : ds[i] \in Digits
        THEN [ok |-> TRUE, val |-> IF signed /\ s[1] = "-" THEN 0 - DigitsVal(ds) ELSE DigitsVal(ds)]
        ELSE [ok |-> FALSE, val |-> 0]

\* One space-separated field of a value, written pre ++ rest, where pre is the
\* text up to and including the first "=" ("" when the field has none).
Field(pre, rest) == [pre |-> pre, rest |-> rest]

\* A reply line "250-key=value": value is the sequence of its fields.
KV(key, value) == [pfx |-> "250-", key |-> key, eq |-> TRUE, val |-> value]
\* "250+key=": opens a multi-line value
Multi(key) == [pfx |-> "250+", key |-> key, eq |-> TRUE, val |-> <<>>]
\* a data line of a multi-line value, and the lone "." that ends it
Data(value) == [pfx |-> "", key |-> "", eq |-> FALSE, val |-> value]
Dot == [pfx |-> ".", key |-> "", eq |-> FALSE, val |-> <<>>]
\* "250 OK" ends the reply
OkLine == [pfx |-> "250 OK", key |-> "", eq |-> FALSE, val |-> <<>>]
\* a status line with another code, such as "515 Bad authentication"
ErrLine == [pfx |-> "515", key |-> "", eq |-> FALSE, val |-> <<>>]

Word(w) == <<Field("", w)>>
Progress(ds) == <<Field("", <<"N">>), Field("", <<"B">>), Field("PROGRESS=", ds), Field("TAG=", <<"d">>)>>

\* The replies the control port gives to the GETINFO of GetStatus. A read
\* (reader.ReadString, which has no deadline) takes the next line the peer sent,
\* or fails; when the peer has sent all it will and the reply is not over, the
\* read waits.
Replies ==
    { \* bootstrapped, circuit established
      << KV("version", Word(<<"0">>)), KV("status/bootstrap-phase", Progress(<<"1", "0", "0">>)),
         KV("status/circuit-established", Word(<<"1">>)),
         KV("traffic/read", Word(<<"7">>)), KV("traffic/written", Word(<<"9">>)), OkLine >>,
      \* past 100, but no circuit yet
      << KV("status/bootstrap-phase", Progress(<<"1", "0", "1">>)),
         KV("status/circuit-established", Word(<<"0">>)), OkLine >>,
      \* still bootstrapping
      << KV("status/bootstrap-phase", Progress(<<"9", "9">>)),
         KV("status/circuit-established", Word(<<"0">>)), OkLine >>,
      \* a multi-line value before the bootstrap phase, progress not a number
      << Multi("version"), Data(Word(<<"0">>)), Dot,
         KV("status/bootstrap-phase", Progress(<<"x">>)), OkLine >>,
      \* nothing but the end of the reply
      << OkLine >>,
      \* one line, and then the peer keeps the connection open and sends no more
      << KV("status/bootstrap-phase", Progress(<<"1", "0", "0">>)) >> }

\* The first line the control port answers to AUTHENTICATE or SIGNAL, or no line
\* at all: the peer took the command and stays silent with the connection open.
StatusReplies == { <<OkLine>>, <<ErrLine>>, <<>> }

\* strings.HasPrefix(line, "250"): every line written pfx ++ ... with pfx one
\* of the prefixes above
HasPrefix250(line) == line.pfx \in {"250 OK", "250-", "250+"}

\* the sequences over S of length at most n
RECURSIVE SeqsUpTo(_, _)
SeqsUpTo(S, n) ==
    IF n = 0 THEN {<<>>}
    ELSE SeqsUpTo(S, n - 1) \cup {Append(q, x) : q \in {r \in SeqsUpTo(S, n - 1) : Len(r) = n - 1}, x \in S}

\* result[key] = value on a Go map
MapPut(m, k, v) == [x \in (DOMAIN m) \cup {k} |-> IF x = k THEN v ELSE m[x]]
EmptyMap == [x \in {} |-> <<>>]

\* tor.Status
ZeroStatus ==
    [Version |-> <<>>, BootstrapPhase |-> 0, CircuitEstablished |-> FALSE,
     NumCircuits |-> 0, BytesRead |-> 0, BytesWritten |-> 0]

\* a PROGRESS= loop that brings the number into 0..100
RECURSIVE BootstrapOfClamped(_, _)
BootstrapOfClamped(fields, acc) ==
    IF fields = <<>> THEN acc
    ELSE LET f == Head(fields)
             n == Atoi(f.rest)
             clamped == IF n.val < 0 THEN 0 ELSE IF n.val > 100 THEN 100 ELSE n.val
         IN  BootstrapOfClamped(Tail(fields),
                                IF f.pre = "PROGRESS=" /\ n.ok THEN clamped ELSE acc)

\* the PROGRESS= loop of GetStatus: the last field that parses wins
RECURSIVE BootstrapOf(_, _)
BootstrapOf(fields, acc) ==
    IF fields = <<>> THEN acc
    ELSE LET f == Head(fields)
             n == Atoi(f.rest)
         IN  BootstrapOf(Tail(fields),
                         IF f.pre = "PROGRESS=" /\ n.ok THEN n.val ELSE acc)

\* a value with exactly one field without "=" is the text of that field
Text(value) == IF Len(value) = 1 /\ value[1].pre = "" THEN value[1].rest ELSE <<"?">>

\* a counter that reports -1 when its value does not parse
ParseCounterNoDefault(info, key) ==
    IF key \in DOMAIN info /\ Atoi(Text(info[key])).ok THEN Atoi(Text(info[key])).val ELSE 0 - 1

\* "if read, ok := info[key]; ok { if val, err := strconv.ParseInt(...); err == nil"
ParseCounter(info, key) ==
    IF key \in DOMAIN info /\ Atoi(Text(info[key])).ok THEN Atoi(Text(info[key])).val ELSE 0

\* a GetStatus that counts the established circuit
StatusOfCountsCircuit(info) ==
    [Version |-> IF "version" \in DOMAIN info THEN Text(info["version"]) ELSE <<>>,
     BootstrapPhase |->
        IF "status/bootstrap-phase" \in DOMAIN info
        THEN BootstrapOf(info["status/bootstrap-phase"], 0) ELSE 0,
     CircuitEstablished |->
        "status/circuit-established" \in DOMAIN info
        /\ Text(info["status/circuit-established"]) = <<"1">>,
     NumCircuits |->
        IF "status/circuit-established" \in DOMAIN info
           /\ Text(info["status/circuit-established"]) = <<"1">> THEN 1 ELSE 0,
     BytesRead |-> ParseCounter(info, "traffic/read"),
     BytesWritten |-> ParseCounter(info, "traffic/written")]

\* the part of GetStatus after GetInfo returned info
StatusOf(info) ==
    [Version |-> IF "version" \in DOMAIN info THEN Text(info["version"]) ELSE <<>>,
     BootstrapPhase |->
        IF "status/bootstrap-phase" \in DOMAIN info
        THEN BootstrapOf(info["status/bootstrap-phase"], 0) ELSE 0,
     CircuitEstablished |->
        "status/circuit-established" \in DOMAIN info
        /\ Text(info["status/circuit-established"]) = <<"1">>,
     NumCircuits |-> 0,
     BytesRead |-> ParseCounter(info, "traffic/read"),
     BytesWritten |-> ParseCounter(info, "traffic/written")]

\* ------------------------------------------------------------------ tasks
\* notify.Event
EventCircuitRenewed == "circuit_renewed"
EventBootstrapFailed == "bootstrap_failed"
EventHealthChanged == "health_changed"
Events == {EventCircuitRenewed, EventBootstrapFailed, EventHealthChanged}

\* notify.Details; hasBootstrap stands for Bootstrap != nil
NoDetails ==
    [hasBootstrap |-> FALSE, Bootstrap |-> 0, Circuits |-> 0, Healthy |-> FALSE, Error |-> ""]

\* What a task remembers of the tor.Client call it is in or has just left:
\*   op       the method called by the task's code (GetStatus calls Connect and GetInfo)
\*   sawNil   the call found c.conn == nil when it first took the lock
\*   dialed   the call dialled
\*   wrote    the commands the call wrote on the wire
\*   closeErr the conn.Close() of the call's error path returned an error
\*   retConn  c.conn as the call's last locked section left it
NoCall == [op |-> "", sawNil |-> FALSE, dialed |-> FALSE, wrote |-> <<>>,
           closeErr |-> FALSE, retConn |-> ""]

\* The local variables of a task, as they are when its work arrives.
\*   kind is the handler (or, under SpecLink, the Client method) the task runs;
\*   seenPrev, relPrev are h.previousHealthy as checkHealthStateChange found it
\*   and as it left it; gauge is the value the request gave metrics.torReady
\*   (-1: none); emitted are the calls of sendWebhook the request made; ready
\*   is the value IsReady returned; signal tells whether Renew's Signal returned
\*   nil ("ok") or an error ("failed"); posts counts the HTTP POSTs a delivery
\*   goroutine made; json is the JSON object Status encoded as its body; reply
\*   is what the peer sent in answer to the GETINFO being parsed.
NoBody == [status |-> ""]

NewLoc(kind, method) ==
    [kind |-> kind, method |-> method,
     err |-> "", info |-> EmptyMap, mkey |-> "", mval |-> <<>>,
     hasStatus |-> FALSE, status |-> ZeroStatus, call |-> NoCall,
     class |-> "", stateChanged |-> FALSE, resp |-> 0, body |-> "", gauge |-> -1,
     seenPrev |-> "", relPrev |-> "", emitted |-> <<>>, ready |-> FALSE, signal |-> "", posts |-> 0,
     json |-> NoBody, reply |-> <<>>]

Idle == NewLoc("", "")

\* where the task goes on after Client.GetStatus returned
AfterGetStatus(kind) ==
    CASE kind = "health" -> "h_eval"
      [] kind = "status" -> "st_resp"
      [] kind = "renew" -> "r_hook"
      [] kind = "IsReady" -> "ir_ret"
      [] OTHER -> "ret"

\* where the task goes on after Client.Connect returned nil
AfterConnect(kind) == IF kind = "Connect" THEN "ret" ELSE "g_lock"

\* where the task goes on after Client.Signal returned
AfterSignal(kind) == IF kind = "renew" THEN "r_signalled" ELSE "ret"

Active == {p \in Tasks : pc[p] # "idle"}

\* config.Load / NewHandler / NewClient. The control password and the webhook
\* are configured or not; the allow-list is all events (the default) or a list
\* without health_changed.
Configs ==
    { [password |-> FALSE, webhook |-> FALSE, webhookEvents |-> Events],
      [password |-> TRUE,  webhook |-> TRUE,  webhookEvents |-> Events],
      [password |-> TRUE,  webhook |-> TRUE,  webhookEvents |-> {EventBootstrapFailed}] }

NoResult == [Success |-> FALSE, IsTor |-> FALSE, IP |-> "", Endpoint |-> "", Error |-> "none"]
NoResponse == [code |-> 0, body |-> NoResult]

InitConfig ==
    \E c \in Configs :
       /\ password = c.password
       /\ webhook = c.webhook
       /\ webhookEvents = c.webhookEvents

InitLink ==
    /\ conn = "nil"
    /\ authed = FALSE
    /\ mu = 0
    /\ inflight = {}
    /\ rx = <<>>

InitHandler ==
    /\ previousHealthy = "unset"
    /\ healthMu = 0
    /\ inFlightHooks = 0

InitTasks ==
    /\ pc = [p \in Tasks |-> "idle"]
    /\ loc = [p \in Tasks |-> Idle]
    /\ mainPc = "serving"

EgressOff ==
    /\ e_endpoints = <<>>
    /\ e_pc = "off"
    /\ e_idx = 0
    /\ e_retry = 0
    /\ e_backoff = 0
    /\ e_slept = <<>>
    /\ e_attempts = <<>>
    /\ e_result = NoResult
    /\ e_resp = NoResponse

Init == InitConfig /\ InitLink /\ InitHandler /\ InitTasks /\ EgressOff

Running(p) == p \in Tasks /\ mainPc # "exited"

\* the routes of SetupRoutes that reach a handler of the model, with the
\* request methods tried on them
Routes ==
    {<<"ping", "GET">>, <<"health", "GET">>, <<"status", "GET">>,
     <<"renew", "POST">>, <<"renew", "GET">>}

\* the first statement of the handler of a route
HandlerEntry(route) ==
    CASE route = "ping" -> "p_resp"
      [] route = "renew" -> "r_method"
      [] OTHER -> "c_lock"

\* mux dispatch (SetupRoutes): a request for one of the given routes arrives
\* while the server accepts them
Accept(p, routes) ==
    /\ Running(p)
    /\ mainPc = "serving"
    /\ pc[p] = "idle"
    /\ inFlightHooks + Cardinality(Active) < MaxInFlight
    /\ \E r \in routes :
          /\ loc' = [loc EXCEPT ![p] = NewLoc(r[1], r[2])]
          /\ pc' = [pc EXCEPT ![p] = HandlerEntry(r[1])]
    /\ UNCHANGED <<configVars, linkVars, handlerVars, mainPc, egressVars>>

AcceptRequest(p) == Accept(p, Routes)

\* the handler returned: the response is on its way and the task is free again
Finish(p) ==
    /\ Running(p)
    /\ pc[p] = "done"
    /\ pc' = [pc EXCEPT ![p] = "idle"]
    /\ loc' = [loc EXCEPT ![p] = Idle]
    /\ UNCHANGED <<configVars, linkVars, handlerVars, mainPc, egressVars>>

\* a task calls a method of the Client
Call(p) ==
    /\ Running(p)
    /\ pc[p] = "idle"
    /\ \E m \in {"Connect", "GetStatus", "IsReady", "Signal", "Close"} :
          /\ loc' = [loc EXCEPT ![p] = NewLoc(m, "")]
          /\ pc' = [pc EXCEPT ![p] = CASE m = "Signal" -> "s_lock"
                                       [] m = "Close" -> "cl_lock"
                                       [] OTHER -> "c_lock"]
    /\ UNCHANGED <<configVars, linkVars, handlerVars, mainPc, egressVars>>

\* the method returned to the task
Return(p) ==
    /\ Running(p)
    /\ pc[p] = "ret"
    /\ pc' = [pc EXCEPT ![p] = "idle"]
    /\ loc' = [loc EXCEPT ![p] = Idle]
    /\ UNCHANGED <<configVars, linkVars, handlerVars, mainPc, egressVars>>

\* ------------------------------------------------------------------ tor.Client
\* conn.Close() on the connection c.conn refers to. The descriptor is released
\* whatever Close returns; Close of a connection already closed returns an error.
CloseOutcomes == IF conn = "open" THEN {"ok", "error"} ELSE {"error"}

\* conn.Write: fails on a closed connection, may fail on an open one
WriteOutcomes == IF conn = "open" THEN {"ok", "error"} ELSE {"error"}

\* the error path "close, c.conn = nil, return err" shared by Connect, GetInfo
\* and Signal: when Close itself fails the function returns before c.conn = nil
ConnAfterClose(closeOutcome) == IF closeOutcome = "ok" THEN "nil" ELSE "closed"

\* Lock() that never waits
CanLockNoMutex(p) == TRUE

\* c.mu.Lock() can return for task p
CanLock(p) == mu = 0

\* the call record of a method that starts now
StartCall(op) == [NoCall EXCEPT !.op = op, !.sawNil = (conn = "nil")]

\* Connect that returns nil without dialling
ConnectEnterNoDial(p) ==
    /\ Running(p)
    /\ pc[p] = "c_lock"
    /\ CanLock(p)
    /\ pc' = [pc EXCEPT ![p] = AfterConnect(loc[p].kind)]
    /\ loc' = [loc EXCEPT ![p].call = [StartCall(loc[p].kind) EXCEPT !.retConn = conn],
                          ![p].err = ""]
    /\ UNCHANGED <<configVars, linkVars, handlerVars, mainPc, egressVars>>

\* Connect, up to the dial: returns nil at once when c.conn != nil
ConnectEnter(p) ==
    /\ Running(p)
    /\ pc[p] = "c_lock"
    /\ CanLock(p)
    /\ IF conn # "nil"
       THEN /\ pc' = [pc EXCEPT ![p] = AfterConnect(loc[p].kind)]
            /\ loc' = [loc EXCEPT ![p].call = [StartCall(loc[p].kind) EXCEPT !.retConn = conn],
                                  ![p].err = ""]
            /\ mu' = mu
       ELSE /\ pc' = [pc EXCEPT ![p] = "c_dial"]
            /\ loc' = [loc EXCEPT ![p].call = StartCall(loc[p].kind), ![p].err = ""]
            /\ mu' = p
    /\ UNCHANGED <<configVars, conn, authed, inflight, rx, handlerVars, mainPc, egressVars>>

\* net.DialTimeout, c.conn = conn, and the return when no password is set
ConnectDial(p) ==
    /\ Running(p)
    /\ pc[p] = "c_dial"
    /\ \E dial \in {"ok", "error"} :
          IF dial = "error"
          THEN /\ loc' = [loc EXCEPT ![p].call.dialed = TRUE, ![p].call.retConn = conn,
                                     ![p].err = "failed to connect to tor control port"]
               /\ pc' = [pc EXCEPT ![p] = AfterGetStatus(loc[p].kind)]
               /\ mu' = 0
               /\ UNCHANGED <<conn, authed>>
          ELSE /\ conn' = "open"
               /\ authed' = FALSE
               /\ IF password
                  THEN /\ pc' = [pc EXCEPT ![p] = "a_write"]
                       /\ loc' = [loc EXCEPT ![p].call.dialed = TRUE]
                       /\ mu' = mu
                  ELSE /\ pc' = [pc EXCEPT ![p] = AfterConnect(loc[p].kind)]
                       /\ loc' = [loc EXCEPT ![p].call.dialed = TRUE, ![p].call.retConn = "open"]
                       /\ mu' = 0
    /\ UNCHANGED <<configVars, inflight, rx, handlerVars, mainPc, egressVars>>

\* authenticate: c.conn.Write of the AUTHENTICATE command
authenticateWrite(p) ==
    /\ Running(p)
    /\ pc[p] = "a_write"
    /\ \E w \in WriteOutcomes :
          IF w = "ok"
          THEN /\ \E reply \in StatusReplies : rx' = reply
               /\ inflight' = inflight \cup {p}
               /\ loc' = [loc EXCEPT ![p].call.wrote = Append(@, "AUTHENTICATE")]
               /\ pc' = [pc EXCEPT ![p] = "a_read"]
          ELSE /\ loc' = [loc EXCEPT ![p].err = "failed to send authenticate command"]
               /\ pc' = [pc EXCEPT ![p] = "c_authfail"]
               /\ UNCHANGED <<inflight, rx>>
    /\ UNCHANGED <<configVars, conn, authed, mu, handlerVars, mainPc, egressVars>>

\* authenticate: reader.ReadString and the "250" prefix test; on success Connect
\* returns nil
authenticateRead(p) ==
    /\ Running(p)
    /\ pc[p] = "a_read"
    /\ rx # <<>>
    /\ inflight' = inflight \ {p}
    /\ rx' = <<>>
    /\ \E r \in {"line", "error"} :
          IF r = "error"
          THEN /\ loc' = [loc EXCEPT ![p].err = "failed to read authenticate response"]
               /\ pc' = [pc EXCEPT ![p] = "c_authfail"]
               /\ UNCHANGED <<authed, mu>>
          ELSE IF ~HasPrefix250(Head(rx))
          THEN /\ loc' = [loc EXCEPT ![p].err = "authentication failed"]
               /\ pc' = [pc EXCEPT ![p] = "c_authfail"]
               /\ UNCHANGED <<authed, mu>>
          ELSE /\ authed' = TRUE
               /\ loc' = [loc EXCEPT ![p].call.retConn = conn]
               /\ pc' = [pc EXCEPT ![p] = AfterConnect(loc[p].kind)]
               /\ mu' = 0
    /\ UNCHANGED <<configVars, conn, handlerVars, mainPc, egressVars>>

\* Connect after authenticate failed: c.conn.Close(); c.conn = nil; return err
ConnectAuthFailed(p) ==
    /\ Running(p)
    /\ pc[p] = "c_authfail"
    /\ \E c \in CloseOutcomes :
          /\ conn' = ConnAfterClose(c)
          /\ loc' = [loc EXCEPT ![p].call.closeErr = (c = "error"),
                                ![p].call.retConn = ConnAfterClose(c)]
    /\ pc' = [pc EXCEPT ![p] = AfterGetStatus(loc[p].kind)]
    /\ mu' = 0
    /\ UNCHANGED <<configVars, authed, inflight, rx, handlerVars, mainPc, egressVars>>

\* GetInfo, up to the write: "not connected" when c.conn == nil
GetInfoEnter(p) ==
    /\ Running(p)
    /\ pc[p] = "g_lock"
    /\ CanLock(p)
    /\ IF conn = "nil"
       THEN /\ loc' = [loc EXCEPT ![p].err = "not connected", ![p].call.retConn = conn]
            /\ pc' = [pc EXCEPT ![p] = AfterGetStatus(loc[p].kind)]
            /\ mu' = mu
       ELSE /\ loc' = [loc EXCEPT ![p].info = EmptyMap]
            /\ pc' = [pc EXCEPT ![p] = "g_write"]
            /\ mu' = p
    /\ UNCHANGED <<configVars, conn, authed, inflight, rx, handlerVars, mainPc, egressVars>>

\* GetInfo: c.conn.Write of the GETINFO command; the peer then sends a reply
GetInfoWrite(p) ==
    /\ Running(p)
    /\ pc[p] = "g_write"
    /\ \E w \in WriteOutcomes :
          IF w = "ok"
          THEN /\ \E reply \in Replies : rx' = reply
               /\ inflight' = inflight \cup {p}
               /\ loc' = [loc EXCEPT ![p].call.wrote = Append(@, "GETINFO")]
               /\ pc' = [pc EXCEPT ![p] = "g_read"]
          ELSE /\ loc' = [loc EXCEPT ![p].err = "failed to send getinfo command"]
               /\ pc' = [pc EXCEPT ![p] = "g_fail"]
               /\ UNCHANGED <<inflight, rx>>
    /\ UNCHANGED <<configVars, conn, authed, mu, handlerVars, mainPc, egressVars>>

\* GetInfo: one turn of the outer read loop. "250 OK" ends the reply: GetInfo
\* returns the map and GetStatus builds the Status from it.
GetInfoRead(p) ==
    /\ Running(p)
    /\ pc[p] = "g_read"
    /\ rx # <<>>
    /\ \E r \in {"line", "error"} :
          LET line == Head(rx) IN
          IF r = "error"
          THEN /\ loc' = [loc EXCEPT ![p].err = "failed to read getinfo response",
                                     ![p].info = EmptyMap]
               /\ pc' = [pc EXCEPT ![p] = "g_fail"]
               /\ inflight' = inflight \ {p}
               /\ rx' = <<>>
               /\ mu' = mu
          ELSE IF line.pfx = "250 OK"
          THEN /\ loc' = [loc EXCEPT ![p].hasStatus = TRUE, ![p].status = StatusOf(loc[p].info),
                                     ![p].info = EmptyMap, ![p].call.retConn = conn]
               /\ pc' = [pc EXCEPT ![p] = AfterGetStatus(loc[p].kind)]
               /\ inflight' = inflight \ {p}
               /\ rx' = <<>>
               /\ mu' = 0
          ELSE IF line.pfx = "250-"
          THEN /\ loc' = [loc EXCEPT ![p].info =
                              IF line.eq THEN MapPut(@, line.key, line.val) ELSE @]
               /\ rx' = Tail(rx)
               /\ UNCHANGED <<pc, inflight, mu>>
          ELSE IF line.pfx = "250+"
          THEN /\ loc' = [loc EXCEPT ![p].mkey = line.key, ![p].mval = <<>>]
               /\ pc' = [pc EXCEPT ![p] = "g_mread"]
               /\ rx' = Tail(rx)
               /\ UNCHANGED <<inflight, mu>>
          ELSE /\ rx' = Tail(rx)
               /\ UNCHANGED <<pc, loc, inflight, mu>>
    /\ UNCHANGED <<configVars, conn, authed, handlerVars, mainPc, egressVars>>

\* GetInfo: one turn of the inner loop that reads a multi-line value up to "."
GetInfoReadMulti(p) ==
    /\ Running(p)
    /\ pc[p] = "g_mread"
    /\ rx # <<>>
    /\ \E r \in {"line", "error"} :
          LET line == Head(rx) IN
          IF r = "error"
          THEN /\ loc' = [loc EXCEPT ![p].err = "failed to read multiline data",
                                     ![p].info = EmptyMap, ![p].mkey = "", ![p].mval = <<>>]
               /\ pc' = [pc EXCEPT ![p] = "g_fail"]
               /\ inflight' = inflight \ {p}
               /\ rx' = <<>>
          ELSE IF line.pfx = "."
          THEN /\ loc' = [loc EXCEPT ![p].info = MapPut(@, loc[p].mkey, loc[p].mval),
                                     ![p].mkey = "", ![p].mval = <<>>]
               /\ pc' = [pc EXCEPT ![p] = "g_read"]
               /\ rx' = Tail(rx)
               /\ UNCHANGED inflight
          ELSE /\ loc' = [loc EXCEPT ![p].mval =
                              IF @ = <<>> THEN line.val ELSE @ \o <<Field("\n", <<>>)>> \o line.val]
               /\ rx' = Tail(rx)
               /\ UNCHANGED <<pc, inflight>>
    /\ UNCHANGED <<configVars, conn, authed, mu, handlerVars, mainPc, egressVars>>

\* GetInfo after a write or read error: c.conn.Close(); c.conn = nil; return err
GetInfoFailed(p) ==
    /\ Running(p)
    /\ pc[p] = "g_fail"
    /\ \E c \in CloseOutcomes :
          /\ conn' = ConnAfterClose(c)
          /\ loc' = [loc EXCEPT ![p].call.closeErr = (c = "error"),
                                ![p].call.retConn = ConnAfterClose(c)]
    /\ pc' = [pc EXCEPT ![p] = AfterGetStatus(loc[p].kind)]
    /\ mu' = 0
    /\ UNCHANGED <<configVars, authed, inflight, rx, handlerVars, mainPc, egressVars>>

\* Signal, up to the write: "not connected" when c.conn == nil
\* a Signal that connects the link when it finds it not connected
SignalEnterDials(p) ==
    /\ Running(p)
    /\ pc[p] = "s_lock"
    /\ CanLock(p)
    /\ loc' = [loc EXCEPT ![p].call = [StartCall("Signal") EXCEPT !.dialed = (conn = "nil")]]
    /\ conn' = IF conn = "nil" THEN "open" ELSE conn
    /\ pc' = [pc EXCEPT ![p] = "s_write"]
    /\ mu' = p
    /\ UNCHANGED <<configVars, authed, inflight, rx, handlerVars, mainPc, egressVars>>

SignalEnter(p) ==
    /\ Running(p)
    /\ pc[p] = "s_lock"
    /\ CanLock(p)
    /\ IF conn = "nil"
       THEN /\ loc' = [loc EXCEPT ![p].call = [StartCall("Signal") EXCEPT !.retConn = conn],
                                  ![p].err = "not connected"]
            /\ pc' = [pc EXCEPT ![p] = AfterSignal(loc[p].kind)]
            /\ mu' = mu
       ELSE /\ loc' = [loc EXCEPT ![p].call = StartCall("Signal")]
            /\ pc' = [pc EXCEPT ![p] = "s_write"]
            /\ mu' = p
    /\ UNCHANGED <<configVars, conn, authed, inflight, rx, handlerVars, mainPc, egressVars>>

\* Signal: c.conn.Write of the SIGNAL command
SignalWrite(p) ==
    /\ Running(p)
    /\ pc[p] = "s_write"
    /\ \E w \in WriteOutcomes :
          IF w = "ok"
          THEN /\ \E reply \in StatusReplies : rx' = reply
               /\ inflight' = inflight \cup {p}
               /\ loc' = [loc EXCEPT ![p].call.wrote = Append(@, "SIGNAL")]
               /\ pc' = [pc EXCEPT ![p] = "s_read"]
          ELSE /\ loc' = [loc EXCEPT ![p].err = "failed to send signal"]
               /\ pc' = [pc EXCEPT ![p] = "s_fail"]
               /\ UNCHANGED <<inflight, rx>>
    /\ UNCHANGED <<configVars, conn, authed, mu, handlerVars, mainPc, egressVars>>

\* Signal: reader.ReadString and the "250" prefix test. A reply with another
\* prefix returns "signal failed" and leaves c.conn as it is.
SignalRead(p) ==
    /\ Running(p)
    /\ pc[p] = "s_read"
    /\ rx # <<>>
    /\ inflight' = inflight \ {p}
    /\ rx' = <<>>
    /\ \E r \in {"line", "error"} :
          IF r = "error"
          THEN /\ loc' = [loc EXCEPT ![p].err = "failed to read signal response"]
               /\ pc' = [pc EXCEPT ![p] = "s_fail"]
               /\ mu' = mu
          ELSE /\ loc' = [loc EXCEPT ![p].err = IF HasPrefix250(Head(rx)) THEN "" ELSE "signal failed",
                                     ![p].call.retConn = conn]
               /\ pc' = [pc EXCEPT ![p] = AfterSignal(loc[p].kind)]
               /\ mu' = 0
    /\ UNCHANGED <<configVars, conn, authed, handlerVars, mainPc, egressVars>>

\* Signal after a write or read error: c.conn.Close(); c.conn = nil; return err
SignalFailed(p) ==
    /\ Running(p)
    /\ pc[p] = "s_fail"
    /\ \E c \in CloseOutcomes :
          /\ conn' = ConnAfterClose(c)
          /\ loc' = [loc EXCEPT ![p].call.closeErr = (c = "error"),
                                ![p].call.retConn = ConnAfterClose(c)]
    /\ pc' = [pc EXCEPT ![p] = AfterSignal(loc[p].kind)]
    /\ mu' = 0
    /\ UNCHANGED <<configVars, authed, inflight, rx, handlerVars, mainPc, egressVars>>

\* Close: err := c.conn.Close(); c.conn = nil; return err -- nil when c.conn == nil
\* a Close that, like the error paths, keeps the handle when conn.Close() fails
CloseKeepsHandleOnError(p) ==
    /\ Running(p)
    /\ pc[p] = "cl_lock"
    /\ CanLock(p)
    /\ IF conn = "nil"
       THEN /\ loc' = [loc EXCEPT ![p].call = [StartCall("Close") EXCEPT !.retConn = "nil"]]
            /\ UNCHANGED conn
       ELSE \E c \in CloseOutcomes :
               /\ conn' = ConnAfterClose(c)
               /\ loc' = [loc EXCEPT ![p].call = [StartCall("Close") EXCEPT
                                                     !.closeErr = (c = "error"), !.retConn = conn'],
                                     ![p].err = IF c = "error" THEN "close" ELSE ""]
    /\ pc' = [pc EXCEPT ![p] = "ret"]
    /\ UNCHANGED <<configVars, authed, mu, inflight, rx, handlerVars, mainPc, egressVars>>

Close(p) ==
    /\ Running(p)
    /\ pc[p] = "cl_lock"
    /\ CanLock(p)
    /\ IF conn = "nil"
       THEN /\ loc' = [loc EXCEPT ![p].call = [StartCall("Close") EXCEPT !.retConn = "nil"]]
            /\ UNCHANGED conn
       ELSE \E c \in CloseOutcomes :
               /\ conn' = "nil"
               /\ loc' = [loc EXCEPT ![p].call = [StartCall("Close") EXCEPT
                                                     !.closeErr = (c = "error"), !.retConn = "nil"],
                                     ![p].err = IF c = "error" THEN "close" ELSE ""]
    /\ pc' = [pc EXCEPT ![p] = "ret"]
    /\ UNCHANGED <<configVars, authed, mu, inflight, rx, handlerVars, mainPc, egressVars>>

\* a bootstrap test of IsReady that is off by one
IsReadyValueOffByOne(l) == l.err = "" /\ l.status.BootstrapPhase > 100

\* IsReady's return value for what GetStatus returned
IsReadyValue(l) == l.err = "" /\ l.status.BootstrapPhase >= 100

\* IsReady after GetStatus returned
IsReady(p) ==
    /\ Running(p)
    /\ pc[p] = "ir_ret"
    /\ loc' = [loc EXCEPT ![p].ready = IsReadyValue(loc[p])]
    /\ pc' = [pc EXCEPT ![p] = "ret"]
    /\ UNCHANGED <<configVars, linkVars, handlerVars, mainPc, egressVars>>

\* every step of a tor.Client method
LinkStep(p) ==
    \/ ConnectEnter(p) \/ ConnectDial(p)
    \/ authenticateWrite(p) \/ authenticateRead(p) \/ ConnectAuthFailed(p)
    \/ GetInfoEnter(p) \/ GetInfoWrite(p) \/ GetInfoRead(p)
    \/ GetInfoReadMulti(p) \/ GetInfoFailed(p)
    \/ SignalEnter(p) \/ SignalWrite(p) \/ SignalRead(p) \/ SignalFailed(p)

NextLink == \E p \in Tasks : Call(p) \/ Return(p) \/ LinkStep(p) \/ IsReady(p) \/ Close(p)

SpecLink == Init /\ [][NextLink]_vars

\* every task is a running goroutine: a step it can take, it takes
\* ---- GetStatus as a function of the mapping GetInfo returned
\* the key is not in the mapping
Absent == <<Field("absent", <<>>)>>

\* values of status/bootstrap-phase: PROGRESS=50, =x, = (empty), no PROGRESS
\* field, an empty value, PROGRESS=101, PROGRESS=-1, and two PROGRESS fields
BootstrapValues ==
    { Progress(<<"5", "0">>), Progress(<<"x">>), Progress(<<>>), Word(<<"N">>), <<>>,
      Progress(<<"1", "0", "1">>), Progress(<<"-", "1">>),
      <<Field("PROGRESS=", <<"7">>), Field("PROGRESS=", <<"x">>)>> }

\* values of a traffic counter: 7, x, the empty string, "7 8"
CounterValues ==
    { Word(<<"7">>), Word(<<"x">>), <<>>, <<Field("", <<"7">>), Field("", <<"8">>)>> }

InfoOf(version, phase, established, read, written) ==
    LET put(m, k, x) == IF x = Absent THEN m ELSE MapPut(m, k, x) IN
    put(put(put(put(put(EmptyMap, "version", version), "status/bootstrap-phase", phase),
                "status/circuit-established", established), "traffic/read", read),
        "traffic/written", written)

\* the mappings GetInfo can return to GetStatus
InfoMaps ==
    { InfoOf(v, b, c, r, w) :
        v \in {Word(<<"0">>), Absent}, b \in BootstrapValues \cup {Absent},
        c \in {Word(<<"1">>), Word(<<"0">>), Absent},
        r \in CounterValues \cup {Absent}, w \in {Word(<<"9">>), Word(<<"x">>), Absent} }

\* GetInfo has just returned a mapping to GetStatus, with no error
InitStatus ==
    /\ password = FALSE /\ webhook = FALSE /\ webhookEvents = Events
    /\ conn = "open" /\ authed = TRUE /\ mu = 0 /\ inflight = {} /\ rx = <<>>
    /\ InitHandler
    /\ mainPc = "serving"
    /\ \E m \in InfoMaps :
          loc = [p \in Tasks |-> IF p = 1 THEN [NewLoc("GetStatus", "") EXCEPT !.info = m]
                                 ELSE Idle]
    /\ pc = [p \in Tasks |-> IF p = 1 THEN "gs_fill" ELSE "idle"]
    /\ EgressOff

\* GetStatus from "status := &Status{" to "return status, nil"
GetStatusFill(p) ==
    /\ Running(p)
    /\ pc[p] = "gs_fill"
    /\ loc' = [loc EXCEPT ![p].hasStatus = TRUE, ![p].status = StatusOf(loc[p].info)]
    /\ pc' = [pc EXCEPT ![p] = "ret"]
    /\ UNCHANGED <<configVars, linkVars, handlerVars, mainPc, egressVars>>

NextStatus == \E p \in Tasks : GetStatusFill(p) \/ Return(p)

SpecStatus == InitStatus /\ [][NextStatus]_vars

\* ---- GetInfo as a function of the bytes of the reply
\* Here a line is the sequence of its characters, line ending included.
IsSpace(ch) == ch \in {" ", "\t", "\r", "\n"}

RECURSIVE TrimLeft(_)
TrimLeft(s) == IF s # <<>> /\ IsSpace(Head(s)) THEN TrimLeft(Tail(s)) ELSE s

RECURSIVE TrimRight(_)
TrimRight(s) ==
    IF s # <<>> /\ IsSpace(s[Len(s)]) THEN TrimRight(SubSeq(s, 1, Len(s) - 1)) ELSE s

\* strings.TrimSpace
TrimSpace(s) == TrimRight(TrimLeft(s))

\* strings.HasPrefix, strings.TrimPrefix, strings.TrimSuffix
HasPrefix(s, prefix) == Len(s) >= Len(prefix) /\ SubSeq(s, 1, Len(prefix)) = prefix
TrimPrefix(s, prefix) == IF HasPrefix(s, prefix) THEN SubSeq(s, Len(prefix) + 1, Len(s)) ELSE s
TrimSuffix(s, suffix) ==
    IF Len(s) >= Len(suffix) /\ SubSeq(s, Len(s) - Len(suffix) + 1, Len(s)) = suffix
    THEN SubSeq(s, 1, Len(s) - Len(suffix)) ELSE s

\* a split at the last "=" instead of the first
SplitNAtLast(s) ==
    LET at == {i \in 1..Len(s) : s[i] = "="} IN
    IF at = {} THEN <<s>>
    ELSE LET i == CHOOSE x \in at : \A y \in at : y <= x
         IN  <<SubSeq(s, 1, i - 1), SubSeq(s, i + 1, Len(s))>>

\* strings.SplitN(s, "=", 2)
SplitN(s) ==
    LET at == {i \in 1..Len(s) : s[i] = "="} IN
    IF at = {} THEN <<s>>
    ELSE LET i == CHOOSE x \in at : \A y \in at : x <= y
         IN  <<SubSeq(s, 1, i - 1), SubSeq(s, i + 1, Len(s))>>

Str250OK == <<"2", "5", "0", " ", "O", "K">>
Str250Dash == <<"2", "5", "0", "-">>
Str250Plus == <<"2", "5", "0", "+">>
\* the beginning of an error status line, such as "552 Unrecognized key"
Str552 == <<"5", "5", "2", " ", "U">>

\* the inner loop of GetInfo: data lines up to the line that is "." once trimmed;
\* ok is FALSE when the lines run out first (the read waits or fails)
RECURSIVE ReadMultiline(_, _)
ReadMultiline(lines, value) ==
    IF lines = <<>> THEN [ok |-> FALSE, value |-> value, rest |-> <<>>]
    ELSE LET dataLine == TrimSpace(Head(lines)) IN
         IF dataLine = <<".">> THEN [ok |-> TRUE, value |-> value, rest |-> Tail(lines)]
         ELSE ReadMultiline(Tail(lines), value \o dataLine \o <<"\n">>)

\* the outer loop of GetInfo: the map when "250 OK" is read, and the lines not read
\* an outer loop that takes a line of any other prefix for the end of the reply
RECURSIVE ReadReplyStopsAtOther(_, _)
ReadReplyStopsAtOther(lines, result) ==
    IF lines = <<>> THEN [ok |-> FALSE, result |-> result, rest |-> <<>>]
    ELSE LET line == TrimSpace(Head(lines)) IN
         IF HasPrefix(line, Str250OK) THEN [ok |-> TRUE, result |-> result, rest |-> Tail(lines)]
         ELSE IF HasPrefix(line, Str250Dash)
         THEN LET parts == SplitN(TrimPrefix(line, Str250Dash)) IN
              ReadReplyStopsAtOther(Tail(lines),
                        IF Len(parts) = 2 THEN MapPut(result, parts[1], parts[2]) ELSE result)
         ELSE IF HasPrefix(line, Str250Plus)
         THEN LET key == TrimSuffix(TrimPrefix(line, Str250Plus), <<"=">>)
                  multi == ReadMultiline(Tail(lines), <<>>)
              IN  IF multi.ok
                  THEN ReadReplyStopsAtOther(multi.rest,
                                             MapPut(result, key, TrimSpace(multi.value)))
                  ELSE [ok |-> FALSE, result |-> result, rest |-> <<>>]
         ELSE [ok |-> TRUE, result |-> result, rest |-> Tail(lines)]

RECURSIVE ReadReply(_, _)
ReadReply(lines, result) ==
    IF lines = <<>> THEN [ok |-> FALSE, result |-> result, rest |-> <<>>]
    ELSE LET line == TrimSpace(Head(lines)) IN
         IF HasPrefix(line, Str250OK) THEN [ok |-> TRUE, result |-> result, rest |-> Tail(lines)]
         ELSE IF HasPrefix(line, Str250Dash)
         THEN LET parts == SplitN(TrimPrefix(line, Str250Dash)) IN
              ReadReply(Tail(lines),
                        IF Len(parts) = 2 THEN MapPut(result, parts[1], parts[2]) ELSE result)
         ELSE IF HasPrefix(line, Str250Plus)
         THEN LET key == TrimSuffix(TrimPrefix(line, Str250Plus), <<"=">>)
                  multi == ReadMultiline(Tail(lines), <<>>)
              IN  IF multi.ok
                  THEN ReadReply(multi.rest, MapPut(result, key, TrimSpace(multi.value)))
                  ELSE [ok |-> FALSE, result |-> result, rest |-> <<>>]
         ELSE ReadReply(Tail(lines), result)

\* the bytes of well-formed replies, line by line
CRLF == <<"\r", "\n">>
ReplyLine(text) == text \o CRLF
\* values of a "250-key=value" line: v, empty, a=b, "v w", and "v "
LineValues == { <<"v">>, <<>>, <<"a", "=", "b">>, <<"v", " ", "w">>, <<"v", " ">> }
\* data lines of a multi-line value: a, an empty line, " a", and "250 OK"
DataLines == { <<"a">>, <<>>, <<" ", "a">>, Str250OK }
MaxDataLines == 2

KeyValueItem(key, value) == << ReplyLine(Str250Dash \o key \o <<"=">> \o value) >>
MultilineItem(key, data) ==
    << ReplyLine(Str250Plus \o key \o <<"=">>) >>
    \o [i \in 1..Len(data) |-> ReplyLine(data[i])]
    \o << ReplyLine(<<".">>) >>

\* the items a reply is made of: none, a line with one of the keys, a status
\* line of another code, or a block
ItemsWith(keys, blockKey) ==
    { <<>>, << ReplyLine(Str552) >> } \cup { KeyValueItem(k, v) : k \in keys, v \in LineValues }
    \cup { MultilineItem(blockKey, d) : d \in SeqsUpTo(DataLines, MaxDataLines) }

\* at most two items (the second may repeat the key of the first), "250 OK",
\* and then nothing or a line the peer sends after the reply; and the replies
\* of a peer that sends an error status line and no "250 OK"
InfoReplies ==
    { first \o second \o << ReplyLine(Str250OK) >> \o after :
        first \in ItemsWith({<<"k">>}, <<"m">>),
        second \in ItemsWith({<<"k">>, <<"j">>}, <<"n">>),
        after \in { <<>>, KeyValueItem(<<"z">>, <<"1">>) } }
    \cup { << ReplyLine(Str552) >>, KeyValueItem(<<"k">>, <<"v">>) \o << ReplyLine(Str552) >> }

\* GetInfo has written its command and the peer has sent its reply
InitInfo ==
    /\ password = FALSE /\ webhook = FALSE /\ webhookEvents = Events
    /\ conn = "open" /\ authed = TRUE /\ mu = 1 /\ inflight = {1}
    /\ InitHandler
    /\ mainPc = "serving"
    /\ \E reply \in InfoReplies :
          /\ rx = reply
          /\ loc = [p \in Tasks |-> IF p = 1 THEN [NewLoc("GetInfo", "") EXCEPT !.reply = reply]
                                    ELSE Idle]
    /\ pc = [p \in Tasks |-> IF p = 1 THEN "gi_read" ELSE "idle"]
    /\ EgressOff

\* GetInfo from "reader := bufio.NewReader(c.conn)" to "return result, nil".
\* What the reader had buffered beyond "250 OK" goes with the reader; what had
\* not arrived yet stays on the connection.
GetInfoReadReply(p) ==
    /\ Running(p)
    /\ pc[p] = "gi_read"
    /\ mu = p
    /\ LET read == ReadReply(rx, EmptyMap) IN
       /\ read.ok
       /\ loc' = [loc EXCEPT ![p].info = read.result]
       /\ \E k \in 0..Len(read.rest) : rx' = SubSeq(read.rest, k + 1, Len(read.rest))
    /\ mu' = 0
    /\ inflight' = inflight \ {p}
    /\ pc' = [pc EXCEPT ![p] = "ret"]
    /\ UNCHANGED <<configVars, conn, authed, handlerVars, mainPc, egressVars>>

NextInfo == \E p \in Tasks : GetInfoReadReply(p) \/ Return(p)

SpecInfo == InitInfo /\ [][NextInfo]_vars

SpecLinkFair == SpecLink /\ \A p \in Tasks : WF_vars(LinkStep(p) \/ IsReady(p) \/ Close(p) \/ Return(p))

\* ------------------------------------------------------------------ health.Handler
\* a Ping that takes c.mu first
PingUnderLock(p) ==
    /\ Running(p)
    /\ pc[p] = "p_resp"
    /\ CanLock(p)
    /\ loc' = [loc EXCEPT ![p].resp = 200, ![p].body = "OK"]
    /\ pc' = [pc EXCEPT ![p] = "done"]
    /\ UNCHANGED <<configVars, linkVars, handlerVars, mainPc, egressVars>>

\* Ping: 200 and {"status": "OK"}
Ping(p) ==
    /\ Running(p)
    /\ pc[p] = "p_resp"
    /\ loc' = [loc EXCEPT ![p].resp = 200, ![p].body = "OK"]
    /\ pc' = [pc EXCEPT ![p] = "done"]
    /\ UNCHANGED <<configVars, linkVars, handlerVars, mainPc, egressVars>>

\* sendWebhook starts a delivery goroutine only when a webhook is configured and
\* the event is in the allow-list
Delivers(event) == webhook /\ event \in webhookEvents

\* sendWebhook(event, message, details) called by the request whose locals are l
sendWebhook(l, event, message, details) ==
    [l EXCEPT !.emitted = Append(@, [event |-> event, message |-> message,
                                     details |-> details, spawned |-> Delivers(event)])]

\* a hand-over that starts no delivery while one is in flight
HooksAfterCapped(event) ==
    IF Delivers(event) /\ inFlightHooks < 1 THEN inFlightHooks + 1 ELSE inFlightHooks

\* the go statement of sendWebhook: one more goroutine, however many there are
HooksAfter(event) == IF Delivers(event) THEN inFlightHooks + 1 ELSE inFlightHooks

\* metrics.observeTorStatus, as far as the torReady gauge goes
observeTorStatus(status) == IF status.CircuitEstablished THEN 1 ELSE 0

\* a bootstrap test that is off by one
ClassifyOffByOne(l) ==
    IF l.err # "" THEN "unhealthy"
    ELSE IF l.status.BootstrapPhase <= 100 THEN "unhealthy" ELSE "healthy"

\* the branch of Health taken for what GetStatus returned
Classify(l) ==
    IF l.err # "" THEN "unhealthy"
    ELSE IF l.status.BootstrapPhase < 100 THEN "unhealthy" ELSE "healthy"

\* Health after GetStatus returned: the metrics update of the branch taken
HealthEval(p) ==
    /\ Running(p)
    /\ pc[p] = "h_eval"
    /\ loc' = [loc EXCEPT ![p].class = Classify(loc[p]), ![p].call = NoCall,
                          ![p].gauge = IF loc[p].err # "" THEN 0
                                       ELSE observeTorStatus(loc[p].status)]
    /\ pc' = [pc EXCEPT ![p] = "chsc_lock"]
    /\ UNCHANGED <<configVars, linkVars, handlerVars, mainPc, egressVars>>

\* a checkHealthStateChange that goes on without h.healthMu
checkHealthStateChangeLockSkipped(p) ==
    /\ Running(p)
    /\ pc[p] = "chsc_lock"
    /\ loc' = [loc EXCEPT ![p].seenPrev = previousHealthy]
    /\ pc' = [pc EXCEPT ![p] = "chsc_body"]
    /\ UNCHANGED <<configVars, linkVars, handlerVars, mainPc, egressVars>>

\* checkHealthStateChange: h.healthMu.Lock()
checkHealthStateChangeLock(p) ==
    /\ Running(p)
    /\ pc[p] = "chsc_lock"
    /\ healthMu = 0
    /\ healthMu' = p
    /\ loc' = [loc EXCEPT ![p].seenPrev = previousHealthy]
    /\ pc' = [pc EXCEPT ![p] = "chsc_body"]
    /\ UNCHANGED <<configVars, linkVars, previousHealthy, inFlightHooks, mainPc, egressVars>>

\* a first-call test that never holds
FirstCallNever(prev) == FALSE

\* "if h.previousHealthy == nil": the first call
FirstCall(prev) == prev = "unset"

\* a change test that holds on every call after the first
ChangedOnEveryCall(prev, currentlyHealthy) == prev # "unset"

\* "if *h.previousHealthy != currentlyHealthy": the stored class changed
Changed(prev, currentlyHealthy) == prev # "unset" /\ prev # currentlyHealthy

\* a checkHealthStateChange that returns without the Unlock
checkHealthStateChangeNoUnlock(p) ==
    /\ Running(p)
    /\ pc[p] = "chsc_body"
    /\ previousHealthy' = loc[p].class
    /\ loc' = [loc EXCEPT ![p].stateChanged = FALSE, ![p].relPrev = previousHealthy']
    /\ pc' = [pc EXCEPT ![p] = "h_post"]
    /\ UNCHANGED <<configVars, linkVars, healthMu, inFlightHooks, mainPc, egressVars>>

\* checkHealthStateChange: the body and the deferred Unlock
checkHealthStateChange(p) ==
    /\ Running(p)
    /\ pc[p] = "chsc_body"
    /\ LET currentlyHealthy == loc[p].class IN
       IF FirstCall(previousHealthy)
       THEN /\ previousHealthy' = currentlyHealthy
            /\ loc' = [loc EXCEPT ![p].stateChanged = FALSE, ![p].relPrev = previousHealthy']
            /\ UNCHANGED inFlightHooks
       ELSE IF Changed(previousHealthy, currentlyHealthy)
       THEN /\ previousHealthy' = currentlyHealthy
            /\ loc' = [loc EXCEPT ![p] =
                  [sendWebhook(loc[p], EventHealthChanged,
                               IF currentlyHealthy = "healthy"
                               THEN "Tor health status changed to healthy"
                               ELSE "Tor health status changed to unhealthy",
                               [NoDetails EXCEPT !.Healthy = (currentlyHealthy = "healthy")])
                   EXCEPT !.stateChanged = TRUE, !.relPrev = previousHealthy']]
            /\ inFlightHooks' = HooksAfter(EventHealthChanged)
       ELSE /\ loc' = [loc EXCEPT ![p].stateChanged = FALSE, ![p].relPrev = previousHealthy]
            /\ UNCHANGED <<previousHealthy, inFlightHooks>>
    /\ healthMu' = 0
    /\ pc' = [pc EXCEPT ![p] = "h_post"]
    /\ UNCHANGED <<configVars, linkVars, mainPc, egressVars>>

\* EventBootstrapFailed held back only when health_changed was really delivered
SendsBootstrapFailedUnlessDelivered(l) ==
    l.class = "unhealthy" /\ ~(l.stateChanged /\ Delivers(EventHealthChanged))

\* EventBootstrapFailed only on the check that changed the stored class
SendsBootstrapFailedOnChange(l) == l.class = "unhealthy" /\ l.stateChanged

\* EventBootstrapFailed on every unhealthy check
SendsBootstrapFailedAlways(l) == l.class = "unhealthy"

\* Health sends EventBootstrapFailed on an unhealthy branch "only if state
\* didn't change"
SendsBootstrapFailed(l) == l.class = "unhealthy" /\ ~l.stateChanged

\* the status code and body of Health's response
HealthResponse(l) ==
    IF l.class = "healthy" THEN [resp |-> 200, body |-> "READY"]
    ELSE [resp |-> 503, body |-> "NOT_READY"]

\* Health after checkHealthStateChange: the bootstrap-failed webhook of the two
\* unhealthy branches, and the response
Health(p) ==
    /\ Running(p)
    /\ pc[p] = "h_post"
    /\ LET l == loc[p]
           answered == [l EXCEPT !.resp = HealthResponse(l).resp, !.body = HealthResponse(l).body]
       IN
       IF SendsBootstrapFailed(l)
       THEN /\ loc' = [loc EXCEPT ![p] =
                  IF l.err # ""
                  THEN sendWebhook(answered, EventBootstrapFailed, "Tor bootstrap failed",
                                   [NoDetails EXCEPT !.Error = l.err])
                  ELSE sendWebhook(answered, EventBootstrapFailed, "Tor bootstrap incomplete",
                                   [NoDetails EXCEPT !.hasBootstrap = TRUE,
                                                     !.Bootstrap = l.status.BootstrapPhase,
                                                     !.Circuits = l.status.NumCircuits])]
            /\ inFlightHooks' = HooksAfter(EventBootstrapFailed)
       ELSE /\ loc' = [loc EXCEPT ![p] = answered]
            /\ UNCHANGED inFlightHooks
    /\ pc' = [pc EXCEPT ![p] = "done"]
    /\ UNCHANGED <<configVars, linkVars, previousHealthy, healthMu, mainPc, egressVars>>

\* a Status that answers a failed query with the code of success and no error text
StatusResponseHidesError(l) ==
    IF l.err # ""
    THEN [resp |-> 200, json |-> [status |-> "ERROR"]]
    ELSE [resp |-> 200,
          json |-> [status |-> "OK", version |-> l.status.Version,
                    bootstrap_phase |-> l.status.BootstrapPhase,
                    circuit_established |-> l.status.CircuitEstablished,
                    num_circuits |-> l.status.NumCircuits,
                    traffic |-> [bytes_read |-> l.status.BytesRead,
                                 bytes_written |-> l.status.BytesWritten]]]

\* the status code and the JSON object Status writes for what GetStatus returned
StatusResponse(l) ==
    IF l.err # ""
    THEN [resp |-> 503, json |-> [status |-> "ERROR", error |-> l.err]]
    ELSE [resp |-> 200,
          json |-> [status |-> "OK", version |-> l.status.Version,
                    bootstrap_phase |-> l.status.BootstrapPhase,
                    circuit_established |-> l.status.CircuitEstablished,
                    num_circuits |-> l.status.NumCircuits,
                    traffic |-> [bytes_read |-> l.status.BytesRead,
                                 bytes_written |-> l.status.BytesWritten]]]

\* Status after GetStatus returned
Status(p) ==
    /\ Running(p)
    /\ pc[p] = "st_resp"
    /\ LET answer == StatusResponse(loc[p]) IN
       loc' = [loc EXCEPT ![p].resp = answer.resp, ![p].body = answer.json.status,
                          ![p].json = answer.json, ![p].call = NoCall,
                          ![p].gauge = IF loc[p].err # "" THEN @
                                       ELSE observeTorStatus(loc[p].status)]
    /\ pc' = [pc EXCEPT ![p] = "done"]
    /\ UNCHANGED <<configVars, linkVars, handlerVars, mainPc, egressVars>>

\* a Renew that goes on to the signal whatever the method
RenewMethodIgnored(p) ==
    /\ Running(p)
    /\ pc[p] = "r_method"
    /\ pc' = [pc EXCEPT ![p] = "s_lock"]
    /\ UNCHANGED <<loc, configVars, linkVars, handlerVars, mainPc, egressVars>>

\* Renew: the method test
RenewMethod(p) ==
    /\ Running(p)
    /\ pc[p] = "r_method"
    /\ IF loc[p].method # "POST"
       THEN /\ loc' = [loc EXCEPT ![p].resp = 405]
            /\ pc' = [pc EXCEPT ![p] = "done"]
       ELSE /\ pc' = [pc EXCEPT ![p] = "s_lock"]
            /\ UNCHANGED loc
    /\ UNCHANGED <<configVars, linkVars, handlerVars, mainPc, egressVars>>

\* Renew after Signal("NEWNYM") returned
RenewSignalled(p) ==
    /\ Running(p)
    /\ pc[p] = "r_signalled"
    /\ IF loc[p].err # ""
       THEN /\ loc' = [loc EXCEPT ![p].resp = 500, ![p].body = "error", ![p].call = NoCall,
                                  ![p].signal = "failed"]
            /\ pc' = [pc EXCEPT ![p] = "done"]
       ELSE /\ loc' = [loc EXCEPT ![p].call = NoCall, ![p].signal = "ok"]
            /\ pc' = [pc EXCEPT ![p] = "c_lock"]
    /\ UNCHANGED <<configVars, linkVars, handlerVars, mainPc, egressVars>>

\* a Renew that notifies whether or not the status was fetched
RenewAlwaysNotifies(p) ==
    /\ Running(p)
    /\ pc[p] = "r_hook"
    /\ loc' = [loc EXCEPT ![p] =
          sendWebhook([loc[p] EXCEPT !.resp = 200, !.body = "OK", !.call = NoCall],
                      EventCircuitRenewed, "Tor circuit renewal requested",
                      [NoDetails EXCEPT !.Circuits = loc[p].status.NumCircuits,
                                        !.Healthy = loc[p].status.CircuitEstablished])]
    /\ inFlightHooks' = HooksAfter(EventCircuitRenewed)
    /\ pc' = [pc EXCEPT ![p] = "done"]
    /\ UNCHANGED <<configVars, linkVars, previousHealthy, healthMu, mainPc, egressVars>>

\* Renew after the GetStatus that follows the signal
Renew(p) ==
    /\ Running(p)
    /\ pc[p] = "r_hook"
    /\ LET l == loc[p]
           answered == [l EXCEPT !.resp = 200, !.body = "OK", !.call = NoCall]
       IN
       IF l.err # ""
       THEN /\ loc' = [loc EXCEPT ![p] = answered]
            /\ UNCHANGED inFlightHooks
       ELSE /\ loc' = [loc EXCEPT ![p] =
                  sendWebhook(answered, EventCircuitRenewed, "Tor circuit renewal requested",
                              [NoDetails EXCEPT !.Circuits = l.status.NumCircuits,
                                                !.Healthy = l.status.CircuitEstablished])]
            /\ inFlightHooks' = HooksAfter(EventCircuitRenewed)
    /\ pc' = [pc EXCEPT ![p] = "done"]
    /\ UNCHANGED <<configVars, linkVars, previousHealthy, healthMu, mainPc, egressVars>>

\* what the body of the goroutine started by sendWebhook can come to: Send
\* returns nil, returns an error (non-2xx, transport error), the context times
\* out, or the body panics
DeliveryOutcomes == {"sent", "failed", "timeout", "panic"}

\* a goroutine without the deferred recover: a panic in it ends the process
WebhookDoneNoRecover ==
    /\ mainPc # "exited"
    /\ inFlightHooks > 0
    /\ inFlightHooks' = inFlightHooks - 1
    /\ \E outcome \in DeliveryOutcomes :
          mainPc' = IF outcome = "panic" THEN "exited" ELSE mainPc
    /\ UNCHANGED <<configVars, linkVars, previousHealthy, healthMu, pc, loc, egressVars>>

\* the goroutine started by sendWebhook ends, whatever webhook.Send returned:
\* the outcome goes to the metric and the log, a panic is recovered
WebhookDone ==
    /\ mainPc # "exited"
    /\ inFlightHooks > 0
    /\ inFlightHooks' = inFlightHooks - 1
    /\ \E outcome \in DeliveryOutcomes : mainPc' = mainPc
    /\ UNCHANGED <<configVars, linkVars, previousHealthy, healthMu, pc, loc, egressVars>>

Next ==
    \/ \E p \in Tasks :
          \/ AcceptRequest(p) \/ Finish(p) \/ LinkStep(p)
          \/ HealthEval(p) \/ checkHealthStateChangeLock(p) \/ checkHealthStateChange(p)
          \/ Ping(p) \/ Health(p) \/ Status(p)
          \/ RenewMethod(p) \/ RenewSignalled(p) \/ Renew(p)
    \/ WebhookDone

Spec == Init /\ [][Next]_vars

\* ---- main: the termination signal, server.Shutdown and the deferred handler.Close
\* "<-quit": SIGINT or SIGTERM arrives
mainQuit ==
    /\ mainPc = "serving"
    /\ mainPc' = "shutdown"
    /\ UNCHANGED <<configVars, linkVars, handlerVars, pc, loc, egressVars>>

\* server.Shutdown(ctx) returns: every request in flight has been answered, or
\* the 10 seconds of ctx are over and the requests in flight go on
serverShutdown ==
    /\ mainPc = "shutdown"
    /\ \E outcome \in {"complete", "timeout"} : outcome = "complete" => Active = {}
    /\ mainPc' = "closing"
    /\ UNCHANGED <<configVars, linkVars, handlerVars, pc, loc, egressVars>>

\* the deferred handler.Close(): Client.Close takes c.mu, closes the connection
\* if there is one and sets c.conn = nil; main returns and the process ends
HandlerClose ==
    /\ mainPc = "closing"
    /\ mu = 0
    /\ conn' = "nil"
    /\ mainPc' = "exited"
    /\ UNCHANGED <<configVars, authed, mu, inflight, rx, handlerVars, pc, loc, egressVars>>

\* /status and /renew requests, served until the signal, their deliveries, and main
NextShutdown ==
    \/ \E p \in Tasks :
          \/ Accept(p, {<<"status", "GET">>, <<"renew", "POST">>}) \/ LinkStep(p)
          \/ Status(p) \/ RenewMethod(p) \/ RenewSignalled(p) \/ Renew(p) \/ Finish(p)
    \/ WebhookDone
    \/ mainQuit \/ serverShutdown \/ HandlerClose

SpecShutdown == Init /\ [][NextShutdown]_vars

\* main and the requests in flight go on while they can
SpecShutdownFair ==
    /\ SpecShutdown
    /\ WF_vars(serverShutdown) /\ WF_vars(HandlerClose)
    /\ WF_vars(WebhookDone)
    /\ \A p \in Tasks :
          WF_vars(LinkStep(p) \/ Status(p) \/ RenewMethod(p) \/ RenewSignalled(p)
                  \/ Renew(p) \/ Finish(p))

\* ------------------------------------------------------------------ ExternalChecker
\* checkEndpoint: maxRetries := 2, backoff := 1 * time.Second
maxRetries == 2
initialBackoff == 1

\* endpoint URLs: one per dialect parseResponse knows, and one it does not know
TorProject == "https://check.torproject.org/api/ip"
DanMeUk == "https://check.dan.me.uk/"
IPInfo == "https://ipinfo.io/json"
Unknown == "https://example.com/ip"
EndpointNames == {TorProject, DanMeUk, IPInfo, Unknown}

\* strings.Contains(endpoint, marker) for the three markers of parseResponse
Contains(endpoint, marker) ==
    \/ marker = "check.torproject.org" /\ endpoint = TorProject
    \/ marker = "check.dan.me.uk" /\ endpoint = DanMeUk
    \/ marker = "ipinfo.io" /\ endpoint = IPInfo

\* A response body: json says whether json.Unmarshal accepts it, and then isTor,
\* ip and orgTor are its "IsTor" and "IP" members and whether the lower-cased
\* "org" member contains "tor"; yes says whether the lower-cased text contains
\* "yes".
Body(json, isTor, ip, orgTor, yes) ==
    [json |-> json, isTor |-> isTor, ip |-> ip, orgTor |-> orgTor, yes |-> yes]

Bodies ==
    { Body(TRUE, TRUE, "1.2.3.4", FALSE, FALSE),    \* {"IsTor":true,"IP":"1.2.3.4"}
      Body(TRUE, FALSE, "9.9.9.9", FALSE, FALSE),   \* {"IsTor":false,"IP":"9.9.9.9"}
      Body(TRUE, FALSE, "5.6.7.8", TRUE, FALSE),    \* {"ip":"5.6.7.8","org":"AS1 TOR Network"}
      Body(FALSE, FALSE, "", FALSE, TRUE),          \* Yes
      Body(FALSE, FALSE, "", FALSE, FALSE) }        \* No

\* what one HTTP GET through the proxy can come to: http.NewRequest or client.Do
\* fails, the status is not 200, io.ReadAll fails (error says which), or a body
\* is read (error is "")
ProbeFailures == {"transport error", "HTTP 500", "read error"}
Outcomes ==
    {[error |-> f, body |-> Body(FALSE, FALSE, "", FALSE, FALSE)] : f \in ProbeFailures}
    \cup {[error |-> "", body |-> b] : b \in Bodies}

\* an interpretation that tries the JSON dialect on endpoints it does not know
parseResponseAnyJSON(endpoint, body) ==
    IF Contains(endpoint, "check.torproject.org") /\ body.json
    THEN [isTor |-> body.isTor, ip |-> body.ip]
    ELSE IF Contains(endpoint, "check.dan.me.uk")
    THEN [isTor |-> body.yes, ip |-> ""]
    ELSE IF Contains(endpoint, "ipinfo.io") /\ body.json
    THEN [isTor |-> body.orgTor, ip |-> body.ip]
    ELSE IF body.json THEN [isTor |-> body.isTor, ip |-> body.ip]
    ELSE [isTor |-> FALSE, ip |-> ""]

parseResponse(endpoint, body) ==
    IF Contains(endpoint, "check.torproject.org") /\ body.json
    THEN [isTor |-> body.isTor, ip |-> body.ip]
    ELSE IF Contains(endpoint, "check.dan.me.uk")
    THEN [isTor |-> body.yes, ip |-> ""]
    ELSE IF Contains(endpoint, "ipinfo.io") /\ body.json
    THEN [isTor |-> body.orgTor, ip |-> body.ip]
    ELSE [isTor |-> FALSE, ip |-> ""]

\* a checkEndpointOnce that leaves Endpoint out of the result of a probe that read a body
checkEndpointOnceUnnamed(endpoint, outcome) ==
    IF outcome.error # ""
    THEN [Success |-> FALSE, IsTor |-> FALSE, IP |-> "", Endpoint |-> endpoint,
          Error |-> outcome.error]
    ELSE [Success |-> TRUE, IsTor |-> parseResponse(endpoint, outcome.body).isTor,
          IP |-> parseResponse(endpoint, outcome.body).ip, Endpoint |-> "", Error |-> ""]

\* checkEndpointOnce, given what the GET came to
checkEndpointOnce(endpoint, outcome) ==
    IF outcome.error # ""
    THEN [Success |-> FALSE, IsTor |-> FALSE, IP |-> "", Endpoint |-> endpoint,
          Error |-> outcome.error]
    ELSE [Success |-> TRUE, IsTor |-> parseResponse(endpoint, outcome.body).isTor,
          IP |-> parseResponse(endpoint, outcome.body).ip, Endpoint |-> endpoint, Error |-> ""]

\* a reading of the success test that also asks for a verified probe
SucceededAndTor(result) == result.Success /\ result.IsTor

\* "if result.Success { return result }" in checkEndpoint and in performCheck
Succeeded(result) == result.Success

\* a loop condition that stops one retry early
RetryAllowedOneLess(retry) == retry < maxRetries

\* the loop condition of checkEndpoint: retry <= maxRetries
RetryAllowed(retry) == retry <= maxRetries

\* checkEndpoint's result after the last retry
FailedAfterRetries(endpoint) ==
    [Success |-> FALSE, IsTor |-> FALSE, IP |-> "", Endpoint |-> endpoint,
     Error |-> "failed after 2 retries"]

\* a failure value that lost its error text
AllEndpointsFailedNoError ==
    [Success |-> FALSE, IsTor |-> FALSE, IP |-> "", Endpoint |-> "", Error |-> ""]

\* performCheck's result after the last endpoint
AllEndpointsFailed ==
    [Success |-> FALSE, IsTor |-> FALSE, IP |-> "", Endpoint |-> "",
     Error |-> "all endpoints failed"]

\* NewExternalChecker with any list of endpoints, and Check called
InitCheck ==
    /\ password = FALSE /\ webhook = FALSE /\ webhookEvents = Events
    /\ InitLink /\ InitHandler /\ InitTasks
    /\ e_endpoints \in SeqsUpTo(EndpointNames, MaxEndpoints)
    /\ e_pc = "range"
    /\ e_idx = 1
    /\ e_retry = 0
    /\ e_backoff = 0
    /\ e_slept = <<>>
    /\ e_attempts = <<>>
    /\ e_result = NoResult
    /\ e_resp = NoResponse

\* performCheck: "for _, endpoint := range e.endpoints" takes the next endpoint
\* and calls checkEndpoint, or the loop is over and the failure value is returned
performCheck ==
    /\ e_pc = "range"
    /\ IF e_idx <= Len(e_endpoints)
       THEN /\ e_pc' = "retry"
            /\ e_retry' = 0
            /\ e_backoff' = initialBackoff
            /\ e_slept' = <<>>
            /\ UNCHANGED e_result
       ELSE /\ e_pc' = "done"
            /\ e_result' = AllEndpointsFailed
            /\ UNCHANGED <<e_retry, e_backoff, e_slept>>
    /\ UNCHANGED <<configVars, linkVars, handlerVars, taskVars, e_endpoints, e_idx, e_attempts,
                   e_resp>>

\* checkEndpoint: one turn of the retry loop (sleep, probe, test), or the loop
\* is over and the endpoint's failure value goes back to performCheck
checkEndpoint ==
    /\ e_pc = "retry"
    /\ LET endpoint == e_endpoints[e_idx] IN
       IF RetryAllowed(e_retry)
       THEN \E outcome \in Outcomes :
               LET result == checkEndpointOnce(endpoint, outcome) IN
               /\ e_slept' = IF e_retry > 0 THEN Append(e_slept, e_backoff) ELSE e_slept
               /\ e_backoff' = IF e_retry > 0 THEN e_backoff * 2 ELSE e_backoff
               /\ e_attempts' = Append(e_attempts,
                     [idx |-> e_idx, retry |-> e_retry, Success |-> result.Success,
                      IsTor |-> result.IsTor, IP |-> result.IP])
               /\ IF Succeeded(result)
                  THEN /\ e_pc' = "returned"
                       /\ e_result' = result
                       /\ UNCHANGED e_retry
                  ELSE /\ e_retry' = e_retry + 1
                       /\ UNCHANGED <<e_pc, e_result>>
       ELSE /\ e_pc' = "returned"
            /\ e_result' = FailedAfterRetries(endpoint)
            /\ UNCHANGED <<e_retry, e_backoff, e_slept, e_attempts>>
    /\ UNCHANGED <<configVars, linkVars, handlerVars, taskVars, e_endpoints, e_idx, e_resp>>

\* performCheck after checkEndpoint returned: return its result, or go on
performCheckResult ==
    /\ e_pc = "returned"
    /\ IF Succeeded(e_result)
       THEN /\ e_pc' = "done"
            /\ UNCHANGED e_idx
       ELSE /\ e_pc' = "range"
            /\ e_idx' = e_idx + 1
    /\ UNCHANGED <<configVars, linkVars, handlerVars, taskVars, e_endpoints, e_retry,
                   e_backoff, e_slept, e_attempts, e_result, e_resp>>

NextCheck == performCheck \/ checkEndpoint \/ performCheckResult

SpecCheck == InitCheck /\ [][NextCheck]_vars

\* Check runs to its return: every step is a statement of one goroutine, and the
\* sleeps and the GETs are bounded (time.Sleep(backoff), client.Timeout)
SpecCheckFair == InitCheck /\ [][NextCheck]_vars /\ WF_vars(NextCheck)

\* the status test of Ready without the IsTor half
ReadyStatusOnSuccess(result) == IF ~result.Success THEN 503 ELSE 200

\* Ready: "if !result.Success || !result.IsTor" 503, else 200
ReadyStatus(result) == IF ~result.Success \/ ~result.IsTor THEN 503 ELSE 200

\* Ready after Check returned: the status code, and the result as the body
Ready ==
    /\ e_pc = "done"
    /\ e_pc' = "answered"
    /\ e_resp' = [code |-> ReadyStatus(e_result), body |-> e_result]
    /\ UNCHANGED <<configVars, linkVars, handlerVars, taskVars, e_endpoints, e_idx, e_retry,
                   e_backoff, e_slept, e_attempts, e_result>>

\* a /ready request, from the call of Check to the response, with /ping
\* requests served beside it
NextReady ==
    \/ NextCheck
    \/ Ready
    \/ \E p \in Tasks : Accept(p, {<<"ping", "GET">>}) \/ Ping(p) \/ Finish(p)

SpecReady == InitCheck /\ [][NextReady]_vars

\* ------------------------------------------------------------------ notify.Webhook
\* What Webhook.Send can come to. posts tells whether client.Do was called (the
\* one POST), code is the status of the response if one came, err the error
\* Send returns, panic whether the goroutine's body panicked instead.
SendOutcomes ==
    { [posts |-> 0, code |-> 0,   err |-> "formatting payload", panic |-> FALSE],
      [posts |-> 0, code |-> 0,   err |-> "creating request", panic |-> FALSE],
      [posts |-> 1, code |-> 0,   err |-> "sending request", panic |-> FALSE],
      [posts |-> 1, code |-> 500, err |-> "webhook returned status", panic |-> FALSE],
      [posts |-> 1, code |-> 204, err |-> "", panic |-> FALSE],
      [posts |-> 0, code |-> 0,   err |-> "", panic |-> TRUE],
      [posts |-> 1, code |-> 0,   err |-> "", panic |-> TRUE] }

\* Handler.sendWebhook called with some event: nothing happens without a webhook
\* or when the event is not in the allow-list; otherwise the go statement starts
\* the delivery goroutine p with the payload
sendWebhookGo(p) ==
    /\ Running(p)
    /\ pc[p] = "idle"
    /\ \E event \in Events :
          IF Delivers(event)
          THEN /\ loc' = [loc EXCEPT ![p] =
                     sendWebhook(NewLoc("delivery", ""), event, "", NoDetails)]
               /\ pc' = [pc EXCEPT ![p] = "w_send"]
               /\ inFlightHooks' = HooksAfter(event)
          ELSE UNCHANGED <<pc, loc, inFlightHooks>>
    /\ UNCHANGED <<configVars, linkVars, previousHealthy, healthMu, mainPc, egressVars>>

\* the goroutine: h.webhook.Send(ctx, payload) under the timeout context
Send(p) ==
    /\ Running(p)
    /\ pc[p] = "w_send"
    /\ \E o \in SendOutcomes :
          /\ loc' = [loc EXCEPT ![p].posts = @ + o.posts, ![p].resp = o.code,
                                ![p].err = IF o.panic THEN "panic" ELSE o.err]
          /\ pc' = [pc EXCEPT ![p] = IF o.panic THEN "w_recover" ELSE "w_observe"]
    /\ UNCHANGED <<configVars, linkVars, handlerVars, mainPc, egressVars>>

\* a goroutine that sends again when Send returned an error
deliveryEndRetries(p) ==
    /\ Running(p)
    /\ pc[p] \in {"w_observe", "w_recover"}
    /\ IF loc[p].err # ""
       THEN /\ pc' = [pc EXCEPT ![p] = "w_send"]
            /\ UNCHANGED inFlightHooks
       ELSE /\ pc' = [pc EXCEPT ![p] = "w_ended"]
            /\ inFlightHooks' = inFlightHooks - 1
    /\ UNCHANGED <<configVars, linkVars, previousHealthy, healthMu, loc, mainPc, egressVars>>

\* the goroutine after Send: observeWebhook and the log line, or the deferred
\* recover after a panic; then it ends, whatever Send returned
deliveryEnd(p) ==
    /\ Running(p)
    /\ pc[p] \in {"w_observe", "w_recover"}
    /\ pc' = [pc EXCEPT ![p] = "w_ended"]
    /\ inFlightHooks' = inFlightHooks - 1
    /\ UNCHANGED <<configVars, linkVars, previousHealthy, healthMu, loc, mainPc, egressVars>>

NextNotify == \E p \in Tasks : sendWebhookGo(p) \/ Send(p) \/ deliveryEnd(p)

\* events handed to sendWebhook, and the delivery goroutines it starts
SpecNotify == Init /\ [][NextNotify]_vars

\* ================================================================== claims
\* ---- control link (SpecLink)
WritePcs == {"a_write", "g_write", "s_write"}
ReadPcs == {"a_read", "g_read", "g_mread", "s_read"}

\* C1: at most one command/response exchange is in flight at any time. A task
\* whose command is written and whose reply is not yet read to the end holds
\* c.mu, and a task about to write a command holds c.mu while no other exchange
\* is in flight: wire writes of concurrent callers never interleave.
C1_OneExchangeInFlight ==
    /\ Cardinality(inflight) <= 1
    /\ \A p \in inflight : mu = p /\ pc[p] \in ReadPcs
    /\ \A p \in Tasks : pc[p] \in WritePcs => mu = p /\ inflight = {}

\* a GETINFO exchange is in flight while a Signal caller and nobody else waits
C1_Witness ==
    \E p, q \in Tasks :
       /\ p # q
       /\ p \in inflight /\ pc[p] = "g_read"
       /\ pc[q] = "s_lock"

\* the errors GetInfo and Signal return after a failed Write or ReadString
ExchangeIOErrors ==
    {"failed to send getinfo command", "failed to read getinfo response",
     "failed to read multiline data", "failed to send signal",
     "failed to read signal response"}

\* C8: after any write or read error during a GetInfo or Signal exchange, c.conn
\* is nil by the time the call returns its error, whatever conn.Close() returned.
C8_NotConnectedAfterIOError ==
    \A p \in Tasks :
       pc[p] = "ret" /\ loc[p].err \in ExchangeIOErrors => loc[p].call.retConn = "nil"

\* C9 as stated: the next operation on a link that is not connected, GetStatus
\* or Signal, tries to re-establish the connection before it sends its command.
C9_NextOperationReconnects ==
    \A p \in Tasks :
       pc[p] = "ret" /\ loc[p].kind \in {"GetStatus", "Signal"} /\ loc[p].call.sawNil
          => loc[p].call.dialed

\* C9 (amended), the states: a GetStatus that finds the link not connected
\* dials before it writes GETINFO, and when it returns without error the link
\* was left connected by it; a Signal that finds the link not connected returns
\* "not connected" without dialling and without writing.
C9_LazyReconnectState ==
    \A p \in Tasks :
       /\ loc[p].kind = "GetStatus" /\ loc[p].call.sawNil /\ pc[p] \in {"g_write", "g_read", "g_mread", "g_fail", "ret"}
             => loc[p].call.dialed
       /\ loc[p].kind = "GetStatus" /\ loc[p].call.sawNil /\ pc[p] = "ret" /\ loc[p].err = ""
             => loc[p].hasStatus /\ loc[p].call.retConn = "open"
                /\ loc[p].call.wrote[Len(loc[p].call.wrote)] = "GETINFO"
       /\ loc[p].kind = "Signal" /\ loc[p].call.sawNil /\ pc[p] = "ret"
             => loc[p].err = "not connected" /\ ~loc[p].call.dialed /\ loc[p].call.wrote = <<>>

\* C9 (amended), the steps: c.conn leaves nil only in the dial of a Connect
\* that some caller is executing; nothing reconnects between calls.
C9_OnlyConnectDials ==
    conn = "nil" /\ conn' # "nil" => \E p \in Tasks : pc[p] = "c_dial" /\ mu = p /\ pc'[p] # "c_dial"

C9_LazyReconnect == []C9_LazyReconnectState /\ [][C9_OnlyConnectDials]_vars

\* a GetStatus found the link not connected, dialled, and returned a snapshot
C9_Witness ==
    \E p \in Tasks :
       /\ pc[p] = "ret" /\ loc[p].kind = "GetStatus"
       /\ loc[p].call.sawNil /\ loc[p].call.dialed /\ loc[p].err = "" /\ loc[p].hasStatus

\* the errors Connect returns when authenticate failed
AuthErrors ==
    {"failed to send authenticate command", "failed to read authenticate response",
     "authentication failed"}

\* C10: with a password configured, AUTHENTICATE is the first command written
\* on a new connection; when its reply does not start with 250 or cannot be
\* read, Connect returns an error and the link is not connected (c.conn is nil).
C10_AuthFailureDisconnects ==
    \A p \in Tasks :
       /\ password /\ loc[p].call.dialed /\ loc[p].call.wrote # <<>>
             => loc[p].call.wrote[1] = "AUTHENTICATE"
       /\ pc[p] = "ret" /\ loc[p].err \in AuthErrors => loc[p].call.retConn = "nil"

\* ---- /health (Spec)
HealthDone(p) == pc[p] = "done" /\ loc[p].kind = "health"

\* the sendWebhook calls of request p that carry the given event
EmittedOf(p, event) == {i \in DOMAIN loc[p].emitted : loc[p].emitted[i].event = event}

\* C2: the /health response is 200 READY if and only if GetStatus succeeded
\* and the snapshot's bootstrap value is >= 100; otherwise it is 503 NOT_READY.
C2_HealthReadyIffBootstrapped ==
    \A p \in Tasks :
       HealthDone(p) =>
          LET ready == loc[p].err = "" /\ loc[p].hasStatus /\ loc[p].status.BootstrapPhase >= 100
          IN  /\ ready => loc[p].resp = 200 /\ loc[p].body = "READY"
              /\ ~ready => loc[p].resp = 503 /\ loc[p].body = "NOT_READY"

\* a check answered 200 on a snapshot with bootstrap 100
C2_Witness ==
    \E p \in Tasks :
       HealthDone(p) /\ loc[p].resp = 200 /\ loc[p].err = "" /\ loc[p].status.BootstrapPhase = 100

C4_HealthChangedOnCrossingOnly ==
    \A p \in Tasks :
       pc[p] \in {"h_post", "done"} /\ loc[p].kind = "health" =>
          LET l == loc[p]
              class == IF l.err = "" /\ l.status.BootstrapPhase >= 100
                       THEN "healthy" ELSE "unhealthy"
              crossing == l.seenPrev # "unset" /\ l.seenPrev # class
              changes == EmittedOf(p, EventHealthChanged)
          IN  /\ l.relPrev = class
              /\ l.stateChanged = crossing
              /\ Cardinality(changes) = IF crossing THEN 1 ELSE 0
              /\ \A i \in changes : l.emitted[i].details.Healthy = (class = "healthy")

\* a check crossed from unhealthy to healthy and emitted its health-changed while
\* another check is the first observation
C4_Witness ==
    /\ \E p \in Tasks :
          /\ HealthDone(p) /\ loc[p].seenPrev = "unhealthy" /\ loc[p].relPrev = "healthy"
          /\ Cardinality(EmittedOf(p, EventHealthChanged)) = 1
    /\ previousHealthy = "healthy"

\* ---- egress verifier (SpecCheck, SpecCheckFair)
Attempts == DOMAIN e_attempts
NegativeProbe(a) == a.Success /\ ~a.IsTor
LastAttempt == e_attempts[Len(e_attempts)]

\* C5 as stated: a probe that succeeds with verified-via-proxy = false counts as
\* the failure of its endpoint. Check does not return it as a success, does not
\* probe that endpoint again, and goes on to the next configured endpoint.
C5_NegativeProbeIsEndpointFailure ==
    e_pc = "done" =>
        \A i \in Attempts :
            NegativeProbe(e_attempts[i]) =>
                /\ ~(e_result.Success /\ e_result.Endpoint = e_endpoints[e_attempts[i].idx])
                /\ \A j \in Attempts : j > i => e_attempts[j].idx # e_attempts[i].idx
                /\ e_attempts[i].idx < Len(e_endpoints) =>
                       \E j \in Attempts : e_attempts[j].idx = e_attempts[i].idx + 1

\* C5 amended: a probe that succeeds with verified-via-proxy = false is a
\* success of its endpoint. It is the last probe Check makes (no retry, no later
\* endpoint), and Check returns it: success = true, verified-via-proxy = false,
\* the observed IP, that endpoint, no error.
C5_NegativeProbeIsReturned ==
    \A i \in Attempts :
        NegativeProbe(e_attempts[i]) =>
            /\ i = Len(e_attempts)
            /\ e_pc \in {"returned", "done"}
            /\ e_result = [Success |-> TRUE, IsTor |-> FALSE, IP |-> e_attempts[i].IP,
                            Endpoint |-> e_endpoints[e_attempts[i].idx], Error |-> ""]

\* a negative probe of an endpoint that has a successor, and Check has returned
C5_Witness ==
    /\ e_pc = "done"
    /\ e_attempts # <<>>
    /\ NegativeProbe(LastAttempt)
    /\ LastAttempt.idx < Len(e_endpoints)
    /\ e_result.Success /\ ~e_result.IsTor

\* C6: endpoints are probed in the configured order, each at most 3 times
\* (retries 0, 1, 2 in turn), a successful probe is the last probe of the call,
\* and an endpoint is only reached after exactly 3 failed probes of every
\* endpoint before it; a successful call returns the result of its last probe.
\* So [A fails, B succeeds] is 3 probes of A, 1 of B, and B's result.
C6_InOrderThreeAttemptsFirstSuccess ==
    /\ \A i \in Attempts :
          /\ e_attempts[i].idx \in 1..Len(e_endpoints)
          /\ e_attempts[i].retry \in 0..2
          /\ e_attempts[i].Success => i = Len(e_attempts)
          /\ i > 1 =>
                \/ /\ e_attempts[i].idx = e_attempts[i - 1].idx
                   /\ e_attempts[i].retry = e_attempts[i - 1].retry + 1
                \/ /\ e_attempts[i].idx = e_attempts[i - 1].idx + 1
                   /\ e_attempts[i].retry = 0
          /\ i = 1 => e_attempts[i].idx = 1 /\ e_attempts[i].retry = 0
          /\ \A k \in 1..(e_attempts[i].idx - 1) :
                Cardinality({j \in Attempts : e_attempts[j].idx = k /\ ~e_attempts[j].Success}) = 3
    /\ \A k \in 1..Len(e_endpoints) :
          Cardinality({j \in Attempts : e_attempts[j].idx = k}) <= 3
    /\ (e_pc = "done" /\ e_result.Success) =>
          /\ e_attempts # <<>>
          /\ LastAttempt.Success
          /\ e_result.Endpoint = e_endpoints[LastAttempt.idx]
          /\ e_result.IsTor = LastAttempt.IsTor
          /\ e_result.IP = LastAttempt.IP

\* [A, B]: three failed probes of A, one successful probe of B, B's result
C6_Witness ==
    /\ e_pc = "done"
    /\ Len(e_endpoints) = 2
    /\ Len(e_attempts) = 4
    /\ \A i \in 1..3 : e_attempts[i].idx = 1 /\ ~e_attempts[i].Success
    /\ e_attempts[4].idx = 2 /\ e_attempts[4].Success
    /\ e_result.Success /\ e_result.Endpoint = e_endpoints[2]

AllAttemptsFailed == \A i \in Attempts : ~e_attempts[i].Success

\* C7: Check always comes to its return and never stops short of it, whatever
\* the probes come to; when every probe of every endpoint failed (an empty list
\* included) the value returned has success = false, verified-via-proxy = false
\* and the error "all endpoints failed", after 3 probes of each endpoint.
C7_ReturnedState ==
    /\ e_pc # "done" => ENABLED NextCheck
    /\ (e_pc = "done" /\ AllAttemptsFailed) =>
          /\ e_result.Success = FALSE
          /\ e_result.IsTor = FALSE
          /\ e_result.Error = "all endpoints failed"
          /\ Len(e_attempts) = 3 * Len(e_endpoints)

C7_AllFailedIsAValue == []C7_ReturnedState /\ <>(e_pc = "done")

\* two endpoints, six failed probes, and the failure value returned
C7_Witness ==
    /\ e_pc = "done"
    /\ Len(e_endpoints) = 2
    /\ Len(e_attempts) = 6
    /\ AllAttemptsFailed
    /\ ~e_result.Success

\* the empty endpoint list: no probe, and the failure value returned
C7_WitnessEmpty ==
    /\ e_pc = "done"
    /\ e_endpoints = <<>>
    /\ e_attempts = <<>>
    /\ ~e_result.Success

\* ---- control link, continued (SpecLink, SpecLinkFair)
\* C11: a Signal whose reply does not start with 250 returns an error, and the
\* link is not connected (c.conn is nil) when it returns.
C11_RejectedSignalDisconnects ==
    \A p \in Tasks :
       pc[p] = "ret" /\ loc[p].kind = "Signal" /\ loc[p].call.wrote = <<"SIGNAL">>
          /\ loc[p].err = "signal failed"
          => loc[p].call.retConn = "nil"

\* C12: a task that holds c.mu, which is every task inside a dial, an
\* authentication or a command/response exchange, eventually releases it: each
\* operation returns, also when the peer took the command and does not send the
\* line that ends the reply.
C12_LockAlwaysReleased == \A p \in Tasks : (mu = p) ~> (mu # p)

\* the state such a run stays in: the command is written, the peer has sent
\* all it will, and the reader waits for a line under the lock
C12_ReaderWaitsForever ==
    \E p \in Tasks : mu = p /\ pc[p] \in ReadPcs /\ p \in inflight /\ rx = <<>>

IsReadyReturned(p) == pc[p] = "ret" /\ loc[p].kind = "IsReady"

\* C18: IsReady returns true exactly when GetStatus returned a status without
\* error and its BootstrapPhase is at least 100 (99: false; 100, 101: true);
\* when Connect or GetInfo failed it returns false.
C18_IsReadyIffBootstrapped ==
    \A p \in Tasks :
       IsReadyReturned(p) =>
          /\ loc[p].ready <=> (loc[p].err = "" /\ loc[p].hasStatus /\ loc[p].status.BootstrapPhase >= 100)
          /\ loc[p].err # "" => ~loc[p].ready /\ ~loc[p].hasStatus
          /\ loc[p].err = "" => loc[p].hasStatus
          /\ loc[p].err = "" /\ loc[p].status.BootstrapPhase = 99 => ~loc[p].ready
          /\ loc[p].err = "" /\ loc[p].status.BootstrapPhase \in {100, 101} => loc[p].ready

\* one IsReady returned true at bootstrap 100, another false at 99
C18_Witness ==
    \E p, q \in Tasks :
       /\ IsReadyReturned(p) /\ loc[p].err = "" /\ loc[p].status.BootstrapPhase = 100 /\ loc[p].ready
       /\ IsReadyReturned(q) /\ loc[q].err = "" /\ loc[q].status.BootstrapPhase = 99 /\ ~loc[q].ready

\* IsReady returned true at bootstrap 101
C18_WitnessAbove ==
    \E p \in Tasks :
       IsReadyReturned(p) /\ loc[p].err = "" /\ loc[p].status.BootstrapPhase = 101 /\ loc[p].ready

\* IsReady returned false after a failed query
C18_WitnessFailure ==
    \E p \in Tasks : IsReadyReturned(p) /\ loc[p].err # "" /\ ~loc[p].ready

\* ---- HTTP handlers, continued (Spec)
PingDone(p) == pc[p] = "done" /\ loc[p].kind = "ping"
LockPcs == {"c_lock", "g_lock", "s_lock"}
LinkPcs == LockPcs \cup WritePcs \cup ReadPcs \cup {"c_dial", "c_authfail", "g_fail", "s_fail"}

\* C13, the states: a /ping request that has reached its handler can always
\* take its step, whoever holds c.mu or h.healthMu and for however long, and
\* its response is 200 with status OK.
C13_PingState ==
    \A p \in Tasks :
       /\ pc[p] = "p_resp" => ENABLED Ping(p)
       /\ PingDone(p) => loc[p].resp = 200 /\ loc[p].body = "OK"

\* C13, the steps: the step of Ping leaves the control link and the evaluator
\* as they are, locks included.
C13_PingStep ==
    \A p \in Tasks :
       pc[p] = "p_resp" /\ pc'[p] = "done" => UNCHANGED <<linkVars, handlerVars>>

C13_PingAlwaysAnswers == []C13_PingState /\ [][C13_PingStep]_vars

\* /ping answered while another request waits under c.mu for a reply that does
\* not come
C13_Witness ==
    \E p, q \in Tasks :
       /\ PingDone(p) /\ loc[p].resp = 200
       /\ mu = q /\ pc[q] \in ReadPcs /\ rx = <<>>

\* C14: a task holds h.healthMu only inside the body of checkHealthStateChange,
\* where it does no control-port I/O and neither holds nor waits for c.mu; the
\* holder can always go on to its Unlock, and a task waiting for h.healthMu
\* does not hold c.mu: no cycle of waiting on the two locks exists.
C14_LocksNeverNested ==
    \A p \in Tasks :
       /\ healthMu = p =>
             /\ pc[p] = "chsc_body"
             /\ pc[p] \notin LinkPcs
             /\ mu # p
             /\ ENABLED checkHealthStateChange(p)
       /\ mu = p => healthMu # p /\ pc[p] # "chsc_lock"
       /\ pc[p] \in LockPcs => healthMu # p

\* both locks are held at once, by two tasks
C14_Witness ==
    \E p, q \in Tasks : p # q /\ healthMu = p /\ mu = q /\ pc[q] \in ReadPcs

RenewDone(p) == pc[p] = "done" /\ loc[p].kind = "renew" /\ loc[p].method = "POST"

\* C15: POST /renew. Signal failed: 500 and no sendWebhook call. Signal
\* succeeded and GetStatus failed: 200 and no sendWebhook call. Both succeeded:
\* 200 and exactly one sendWebhook call, for circuit_renewed, whose details
\* carry the snapshot's NumCircuits and CircuitEstablished.
C15_RenewNotifiesOnceOnStatus ==
    \A p \in Tasks :
       RenewDone(p) =>
          /\ loc[p].signal \in {"ok", "failed"}
          /\ loc[p].signal = "failed" => loc[p].resp = 500 /\ loc[p].emitted = <<>>
          /\ loc[p].signal = "ok" /\ ~loc[p].hasStatus =>
                loc[p].resp = 200 /\ loc[p].emitted = <<>>
          /\ loc[p].signal = "ok" /\ loc[p].hasStatus =>
                /\ loc[p].resp = 200
                /\ Len(loc[p].emitted) = 1
                /\ loc[p].emitted[1].event = EventCircuitRenewed
                /\ loc[p].emitted[1].details.Circuits = loc[p].status.NumCircuits
                /\ loc[p].emitted[1].details.Healthy = loc[p].status.CircuitEstablished

\* signal and status fetch succeeded, circuit established: one notification
C15_Witness ==
    \E p \in Tasks :
       /\ RenewDone(p) /\ loc[p].signal = "ok" /\ loc[p].hasStatus
       /\ loc[p].status.CircuitEstablished
       /\ Len(loc[p].emitted) = 1 /\ loc[p].emitted[1].details.Healthy

\* signal succeeded, status fetch failed: 200 and no notification
C15_WitnessNoStatus ==
    \E p \in Tasks :
       RenewDone(p) /\ loc[p].signal = "ok" /\ ~loc[p].hasStatus /\ loc[p].err # ""
          /\ loc[p].resp = 200 /\ loc[p].emitted = <<>>

\* signal failed: 500 and no notification
C15_WitnessSignalFailed ==
    \E p \in Tasks : RenewDone(p) /\ loc[p].signal = "failed" /\ loc[p].resp = 500

\* C17, the states: the process keeps serving whatever a delivery came to, and
\* a handler that has written its response returns without waiting for the
\* deliveries in flight.
C17_ServingState ==
    /\ mainPc = "serving"
    /\ \A p \in Tasks : pc[p] = "done" => ENABLED Finish(p)

\* C17, the steps: the end of a delivery, whatever its outcome, changes no
\* request's position, status code or body, and nothing of the link or the
\* evaluator.
C17_DeliveryStep ==
    inFlightHooks' < inFlightHooks =>
        UNCHANGED <<pc, loc, mainPc, linkVars, previousHealthy, healthMu>>

C17_DeliveryContained == []C17_ServingState /\ [][C17_DeliveryStep]_vars

\* a request has written its response, and the delivery it started is over
C17_Witness ==
    \E p \in Tasks :
       /\ pc[p] = "done" /\ loc[p].resp \in {200, 503}
       /\ \E i \in DOMAIN loc[p].emitted : loc[p].emitted[i].spawned
       /\ inFlightHooks = 0

SpawnedOf(p, event) == {i \in EmittedOf(p, event) : loc[p].emitted[i].spawned}

C19_WitnessSteady ==
    \E p \in Tasks :
       /\ HealthDone(p) /\ loc[p].class = "unhealthy" /\ loc[p].seenPrev = "unhealthy"
       /\ SpawnedOf(p, EventBootstrapFailed) # {}
       /\ EmittedOf(p, EventHealthChanged) = {}

\* ---- notifier (SpecNotify)
Deliveries == {p \in Tasks : loc[p].kind = "delivery"}

\* C16, the states: a delivery carries one event and makes at most one POST.
C16_OnePostState ==
    \A p \in Deliveries : Len(loc[p].emitted) = 1 /\ loc[p].posts <= 1

\* C16, the steps: after Send has returned, with or without an error, the
\* goroutine only ends; a delivery that has ended stays as it is (no retry, no
\* queue); POSTs are made by the Send of a delivery and nowhere else.
C16_NoRetryStep ==
    \A p \in Tasks :
       /\ pc[p] \in {"w_observe", "w_recover"} =>
             pc'[p] \in {pc[p], "w_ended"} /\ loc'[p] = loc[p]
       /\ pc[p] = "w_ended" => pc'[p] = "w_ended" /\ loc'[p] = loc[p]
       /\ loc'[p].posts # loc[p].posts => pc[p] = "w_send" /\ pc'[p] # "w_send"

C16_AtMostOnePost == []C16_OnePostState /\ [][C16_NoRetryStep]_vars

\* a delivery whose one POST was answered 500 has ended
C16_Witness ==
    \E p \in Deliveries :
       /\ pc[p] = "w_ended" /\ loc[p].posts = 1 /\ loc[p].resp = 500 /\ loc[p].err # ""
       /\ inFlightHooks = 0

\* ---- /ready (SpecReady)
\* C20: the /ready response is 200 if and only if the result of Check has
\* Success and IsTor both true, and 503 otherwise; the body is that result.
C20_ReadyIffSuccessAndTor ==
    e_pc = "answered" =>
        /\ e_resp.code \in {200, 503}
        /\ e_resp.code = 200 <=> (e_result.Success /\ e_result.IsTor)
        /\ e_resp.body = e_result

\* reachable but not through Tor: 503 with the successful result as the body
C20_Witness ==
    /\ e_pc = "answered"
    /\ e_result.Success /\ ~e_result.IsTor
    /\ e_resp.code = 503 /\ e_resp.body = e_result

\* verified through Tor: 200
C20_WitnessOk ==
    e_pc = "answered" /\ e_result.Success /\ e_result.IsTor /\ e_resp.code = 200

\* every endpoint failed: 503
C20_WitnessFailed ==
    e_pc = "answered" /\ ~e_result.Success /\ e_resp.code = 503

\* ------------------------------------------------------------------ C21
StatusDone(p) == pc[p] = "done" /\ loc[p].kind = "status"

\* C21: /status answers 200 with every field of the snapshot GetStatus
\* returned, and 503 with the object {status: "ERROR", error: <the error's
\* text>} when the query failed; whatever the query returned, the handler
\* has a response to give and the server goes on serving.
C21_StatusAnswersSnapshotOrError ==
    /\ mainPc = "serving"
    /\ \A p \in Tasks :
          /\ pc[p] = "st_resp" => ENABLED Status(p)
          /\ StatusDone(p) =>
                IF loc[p].err # ""
                THEN /\ loc[p].resp = 503
                     /\ loc[p].json = [status |-> "ERROR", error |-> loc[p].err]
                ELSE /\ loc[p].hasStatus
                     /\ loc[p].resp = 200
                     /\ loc[p].json.status = "OK"
                     /\ loc[p].json.version = loc[p].status.Version
                     /\ loc[p].json.bootstrap_phase = loc[p].status.BootstrapPhase
                     /\ loc[p].json.circuit_established = loc[p].status.CircuitEstablished
                     /\ loc[p].json.num_circuits = loc[p].status.NumCircuits
                     /\ loc[p].json.traffic.bytes_read = loc[p].status.BytesRead
                     /\ loc[p].json.traffic.bytes_written = loc[p].status.BytesWritten

\* C21 witness: a /status whose query failed on a link nobody had connected
\* has answered 503 with the error
C21_Witness ==
    \E p \in Tasks :
       /\ StatusDone(p)
       /\ loc[p].err # ""
       /\ loc[p].resp = 503
       /\ conn = "nil"

\* C21 witness: a /status has answered 200 with a snapshot that has traffic
C21_WitnessSnapshot ==
    \E p \in Tasks :
       /\ StatusDone(p)
       /\ loc[p].resp = 200
       /\ loc[p].json.bootstrap_phase = 100
       /\ loc[p].json.traffic.bytes_read = 7

\* ------------------------------------------------------------------ C22
\* a string of decimal digits, with or without a sign
Numeric(s) ==
    LET ds == IF s # <<>> /\ s[1] \in {"+", "-"} THEN Tail(s) ELSE s
    IN  ds # <<>> /\ \A i \in 1..Len(ds) : ds[i] \in Digits

\* the value is one word, and the word is a number
NumericValue(value) == Len(value) = 1 /\ value[1].pre = "" /\ Numeric(value[1].rest)

HasNumericProgress(info) ==
    /\ "status/bootstrap-phase" \in DOMAIN info
    /\ \E i \in 1..Len(info["status/bootstrap-phase"]) :
          /\ info["status/bootstrap-phase"][i].pre = "PROGRESS="
          /\ Numeric(info["status/bootstrap-phase"][i].rest)

FilledFrom(p) == pc[p] = "ret" /\ loc[p].kind = "GetStatus" /\ loc[p].hasStatus

\* C22: GetStatus returns a snapshot and no error for every mapping GetInfo
\* returned. Without a PROGRESS field that is a number the bootstrap is 0; a
\* traffic counter that is absent or is not a number is 0; and every other
\* field is filled from its own key none the less: the version, the circuit
\* flag ("1" or not), and each counter that is a number.
C22_MalformedFieldsDefaultToZero ==
    \A p \in Tasks : FilledFrom(p) =>
       LET info == loc[p].info
           st == loc[p].status
           counter(key, got) ==
              IF key \in DOMAIN info /\ NumericValue(info[key])
              THEN got = DigitsVal(info[key][1].rest)
              ELSE got = 0
       IN  /\ loc[p].err = ""
           /\ ~HasNumericProgress(info) => st.BootstrapPhase = 0
           /\ counter("traffic/read", st.BytesRead)
           /\ counter("traffic/written", st.BytesWritten)
           /\ st.Version = (IF "version" \in DOMAIN info THEN info["version"][1].rest ELSE <<>>)
           /\ st.CircuitEstablished =
                 ("status/circuit-established" \in DOMAIN info
                  /\ info["status/circuit-established"] = Word(<<"1">>))

\* C22 witness: a snapshot from a mapping whose PROGRESS is not a number and
\* whose traffic/read does not parse, with the circuit flag and traffic/written
\* filled all the same
C22_Witness ==
    \E p \in Tasks :
       /\ FilledFrom(p)
       /\ "status/bootstrap-phase" \in DOMAIN loc[p].info
       /\ loc[p].info["status/bootstrap-phase"] = Progress(<<"x">>)
       /\ "traffic/read" \in DOMAIN loc[p].info
       /\ loc[p].info["traffic/read"] = Word(<<"x">>)
       /\ loc[p].status.BootstrapPhase = 0
       /\ loc[p].status.BytesRead = 0
       /\ loc[p].status.BytesWritten = 9
       /\ loc[p].status.CircuitEstablished

\* C22 witness: a snapshot from the empty mapping
C22_WitnessAbsent ==
    \E p \in Tasks : FilledFrom(p) /\ loc[p].info = EmptyMap /\ loc[p].status = ZeroStatus

\* ------------------------------------------------------------------ C28
\* the positions of the PROGRESS fields of the value that are numbers
ProgressTokens(value) ==
    {i \in 1..Len(value) : value[i].pre = "PROGRESS=" /\ Numeric(value[i].rest)}

SignedVal(s) ==
    IF s[1] = "-" THEN 0 - DigitsVal(Tail(s))
    ELSE IF s[1] = "+" THEN DigitsVal(Tail(s)) ELSE DigitsVal(s)

\* the number of the last PROGRESS token of the mapping, 0 without one
LastProgress(info) ==
    IF "status/bootstrap-phase" \in DOMAIN info
       /\ ProgressTokens(info["status/bootstrap-phase"]) # {}
    THEN LET value == info["status/bootstrap-phase"]
             last == CHOOSE i \in ProgressTokens(value) :
                        \A j \in ProgressTokens(value) : j <= i
         IN  SignedVal(value[last].rest)
    ELSE 0

\* C28 (as stated): the bootstrap of every snapshot GetStatus returns is in
\* 0..100, whatever PROGRESS token the control port sent.
C28_BootstrapWithinRange ==
    \A p \in Tasks : FilledFrom(p) => loc[p].status.BootstrapPhase \in 0..100

\* C28 (amended): the bootstrap of a snapshot is the number of the last
\* PROGRESS token that is a decimal integer, as sent (0 without such a
\* token); it is in 0..100 when that token is.
C28_BootstrapIsLastProgressToken ==
    \A p \in Tasks : FilledFrom(p) =>
       /\ loc[p].status.BootstrapPhase = LastProgress(loc[p].info)
       /\ LastProgress(loc[p].info) \in 0..100 => loc[p].status.BootstrapPhase \in 0..100

\* C28 witness: a snapshot from PROGRESS=101 has bootstrap 101
C28_Witness ==
    \E p \in Tasks :
       /\ FilledFrom(p)
       /\ "status/bootstrap-phase" \in DOMAIN loc[p].info
       /\ loc[p].info["status/bootstrap-phase"] = Progress(<<"1", "0", "1">>)
       /\ loc[p].status.BootstrapPhase = 101

\* C28 witness: a snapshot from PROGRESS=-1 has bootstrap -1
C28_WitnessNegative ==
    \E p \in Tasks :
       /\ FilledFrom(p)
       /\ "status/bootstrap-phase" \in DOMAIN loc[p].info
       /\ loc[p].info["status/bootstrap-phase"] = Progress(<<"-", "1">>)
       /\ loc[p].status.BootstrapPhase = 0 - 1

\* ------------------------------------------------------------------ C29
\* C29: after a /health or /status request that set the torarr_tor_ready
\* gauge, the gauge is 1 exactly when the query succeeded with a bootstrap of
\* at least 100, and so it agrees with the verdict /health gives for the same
\* observation.
C29_ReadyGaugeFollowsBootstrap ==
    \A p \in Tasks :
       (pc[p] = "done" /\ loc[p].kind \in {"health", "status"} /\ loc[p].gauge # 0 - 1) =>
          /\ loc[p].gauge = 1 <=> (loc[p].err = "" /\ loc[p].status.BootstrapPhase >= 100)
          /\ loc[p].kind = "health" => (loc[p].gauge = 1 <=> loc[p].resp = 200)

\* ------------------------------------------------------------------ C30
\* the evaluator lock is held only inside checkHealthStateChange, called by Health
C30_LockState ==
    \A p \in Tasks : healthMu = p => pc[p] = "chsc_body" /\ loc[p].kind = "health"

\* a step that changes the stored class is the body of checkHealthStateChange
\* of a /health request that holds the lock; steps of the other handlers, the
\* end of a delivery and the steps of the link leave it as it is
C30_StoredClassStep ==
    /\ previousHealthy' # previousHealthy =>
          \E p \in Tasks :
             /\ healthMu = p
             /\ loc[p].kind = "health"
             /\ pc[p] = "chsc_body" /\ pc'[p] = "h_post"
             /\ previousHealthy' = loc[p].class
    /\ \A p \in Tasks :
          (pc'[p] # pc[p] /\ (loc[p].kind \in {"ping", "status", "renew"} \/ pc[p] \in LinkPcs))
             => previousHealthy' = previousHealthy
    /\ inFlightHooks' < inFlightHooks => previousHealthy' = previousHealthy

\* C30: the stored health class is read and written only by
\* checkHealthStateChange of a /health request while it holds healthMu: /ping,
\* /status and /renew requests, the end of a notification delivery and every
\* step on the control link, failures included, leave it unchanged.
C30_StoredClassOnlyUnderLock == []C30_LockState /\ [][C30_StoredClassStep]_vars

\* C30 witness: a /health stored "healthy"; after it a /status failed on the
\* link and left it disconnected, and the stored class is still "healthy"
C30_Witness ==
    \E p, q \in Tasks :
       /\ HealthDone(p) /\ loc[p].relPrev = "healthy"
       /\ StatusDone(q) /\ loc[q].err # ""
       /\ conn = "nil"
       /\ previousHealthy = "healthy"

\* ------------------------------------------------------------------ C25
NotPost(p) == loc[p].kind = "renew" /\ loc[p].method # "POST"

\* a /renew that is not a POST is at its method test or has answered 405,
\* having called nothing on the link and handed over no notification
C25_RejectedState ==
    \A p \in Tasks : NotPost(p) =>
       /\ pc[p] \in {"r_method", "done"}
       /\ loc[p].call = NoCall /\ loc[p].signal = "" /\ ~loc[p].hasStatus
       /\ loc[p].emitted = <<>>
       /\ pc[p] = "done" => loc[p].resp = 405

\* its one step answers, and leaves the link, the stored class and the
\* deliveries in flight as they were
C25_RejectedStep ==
    \A p \in Tasks :
       (NotPost(p) /\ pc[p] = "r_method" /\ pc'[p] # pc[p]) =>
          /\ pc'[p] = "done"
          /\ UNCHANGED <<linkVars, handlerVars>>

\* C25: a /renew request whose method is not POST answers 405 and has no
\* effect: it sends no SIGNAL, takes no step on the control link and hands
\* over no notification.
C25_NonPostRenewHasNoEffect == []C25_RejectedState /\ [][C25_RejectedStep]_vars

\* C25 witness: a GET /renew has answered 405 while the link is connected and
\* the webhook is configured
C25_Witness ==
    \E p \in Tasks :
       /\ NotPost(p) /\ pc[p] = "done" /\ loc[p].resp = 405
       /\ conn = "open" /\ authed
       /\ webhook /\ EventCircuitRenewed \in webhookEvents

\* ------------------------------------------------------------------ C26
Closed(p) == pc[p] = "ret" /\ loc[p].kind = "Close"

\* Close has left the handle nil, and has returned nil when it found it nil;
\* a status query that finds the handle nil dials, and when it succeeds the
\* link is connected again
C26_ClosedState ==
    \A p \in Tasks :
       /\ Closed(p) =>
             /\ loc[p].call.retConn = "nil"
             /\ loc[p].call.sawNil => loc[p].err = "" /\ ~loc[p].call.closeErr
       /\ (pc[p] = "ret" /\ loc[p].kind = "GetStatus" /\ loc[p].call.sawNil /\ loc[p].err = "")
             => loc[p].call.dialed /\ loc[p].call.retConn = "open"

\* the step of Close: the handle is nil after it, and on a link that is not
\* connected nothing of the link changes
C26_CloseStep ==
    \A p \in Tasks :
       (pc[p] = "cl_lock" /\ pc'[p] # pc[p]) =>
          /\ conn' = "nil"
          /\ conn = "nil" => UNCHANGED linkVars /\ loc'[p].err = ""

\* C26: Close on a link that is not connected returns nil and changes
\* nothing; Close on a connected link leaves the handle nil, so a second Close
\* is the first case; and a status query after a Close finds the handle nil,
\* dials, and can succeed.
C26_CloseIdempotentAndReconnectable == []C26_ClosedState /\ [][C26_CloseStep]_vars

\* C26 witness: a Close found the link connected and closed it; a status
\* query that then found the handle nil dialled and returned a snapshot
C26_Witness ==
    \E p, q \in Tasks :
       /\ Closed(p) /\ ~loc[p].call.sawNil
       /\ pc[q] = "ret" /\ loc[q].kind = "GetStatus"
       /\ loc[q].call.sawNil /\ loc[q].call.dialed /\ loc[q].hasStatus
       /\ conn = "open"

\* C26 witness: a Close on a link that is not connected returned nil
C26_WitnessNotConnected ==
    \E p \in Tasks : Closed(p) /\ loc[p].call.sawNil /\ loc[p].err = "" /\ conn = "nil"

\* ------------------------------------------------------------------ C27
SignalNotConnected(p) == loc[p].kind = "Signal" /\ loc[p].call.op = "Signal" /\ loc[p].call.sawNil

\* a Signal that found no connection has returned at once with the error
C27_NotConnectedState ==
    \A p \in Tasks : SignalNotConnected(p) =>
       /\ pc[p] = "ret"
       /\ loc[p].err = "not connected"
       /\ ~loc[p].call.dialed
       /\ loc[p].call.wrote = <<>>
       /\ loc[p].call.retConn = "nil"

\* the step of Signal on a link without a connection changes nothing of the link
C27_NotConnectedStep ==
    \A p \in Tasks :
       (pc[p] = "s_lock" /\ pc'[p] # pc[p] /\ conn = "nil") =>
          /\ pc'[p] = "ret"
          /\ UNCHANGED linkVars

\* C27: Signal on a link that has no connection returns the error "not
\* connected" without dialling and without writing a command.
C27_SignalNeverDials == []C27_NotConnectedState /\ [][C27_NotConnectedStep]_vars

\* C27 witness: a Signal on a link nobody is using, not connected, and with a
\* password configured, has returned "not connected"
C27_Witness ==
    \E p \in Tasks :
       /\ SignalNotConnected(p) /\ pc[p] = "ret" /\ loc[p].err = "not connected"
       /\ conn = "nil" /\ mu = 0 /\ password

\* ------------------------------------------------------------------ C24
\* the probes of an endpoint that no dialect of parseResponse matches
UnknownProbes == {i \in Attempts : e_endpoints[e_attempts[i].idx] = Unknown}

\* C24: for an endpoint whose URL matches none of the known dialects, the
\* interpretation of every body is "not verified, no IP"; so every probe of
\* such an endpoint that read a body is a success that is not verified and
\* has no IP, and the result made of it carries no error.
C24_UnknownDialectNeverVerifies ==
    /\ \A b \in Bodies : parseResponse(Unknown, b) = [isTor |-> FALSE, ip |-> ""]
    /\ \A o \in Outcomes :
          o.error = "" =>
             /\ checkEndpointOnce(Unknown, o).Success
             /\ checkEndpointOnce(Unknown, o).Error = ""
    /\ \A i \in UnknownProbes :
          e_attempts[i].Success => ~e_attempts[i].IsTor /\ e_attempts[i].IP = ""
    /\ (e_pc \in {"returned", "done"} /\ e_result.Endpoint = Unknown /\ e_result.Success) =>
          ~e_result.IsTor /\ e_result.IP = "" /\ e_result.Error = ""

\* C24 witness: Check returned the probe of an endpoint of no known dialect
\* that read a body: a success, not verified, without IP
C24_Witness ==
    /\ e_pc = "done"
    /\ e_result.Endpoint = Unknown /\ e_result.Success
    /\ ~e_result.IsTor /\ e_result.IP = ""
    /\ \E i \in UnknownProbes : e_attempts[i].Success

\* ------------------------------------------------------------------ C23
\* a line without its line ending
Content(line) == SubSeq(line, 1, Len(line) - 2)

\* the position of the first "=" of a text that has one
FirstEq(text) == CHOOSE i \in 1..Len(text) : text[i] = "=" /\ \A j \in 1..(i - 1) : text[j] # "="

\* the data lines of a block up to the lone "." line, and the lines after it
RECURSIVE BlockOf(_, _)
BlockOf(lines, data) ==
    IF Content(Head(lines)) = <<".">> THEN [data |-> data, rest |-> Tail(lines)]
    ELSE BlockOf(Tail(lines), Append(data, Content(Head(lines))))

\* the reply read by its grammar: one entry per "250-key=value" line and per
\* "250+key=" block up to the first "250 OK" line, each with its key and the
\* lines of its value; a line of another prefix between them gives no entry
RECURSIVE GrammarPairs(_, _)
GrammarPairs(lines, pairs) ==
    LET text == Content(Head(lines))
        body == SubSeq(text, 5, Len(text))
    IN  IF text = Str250OK THEN pairs
        ELSE IF SubSeq(text, 1, 4) \notin {Str250Dash, Str250Plus}
        THEN GrammarPairs(Tail(lines), pairs)
        ELSE IF SubSeq(text, 1, 4) = Str250Dash
        THEN GrammarPairs(Tail(lines),
                Append(pairs, [key |-> SubSeq(body, 1, FirstEq(body) - 1),
                               data |-> << SubSeq(body, FirstEq(body) + 1, Len(body)) >>]))
        ELSE LET block == BlockOf(Tail(lines), <<>>) IN
             GrammarPairs(block.rest,
                Append(pairs, [key |-> SubSeq(body, 1, Len(body) - 1), data |-> block.data]))

\* lines joined with newlines
RECURSIVE Join(_)
Join(data) ==
    IF data = <<>> THEN <<>>
    ELSE IF Len(data) = 1 THEN data[1]
    ELSE data[1] \o <<"\n">> \o Join(Tail(data))

\* a text without the white space around it
Stripped(text) ==
    LET solid == {i \in 1..Len(text) : text[i] \notin {" ", "\t", "\r", "\n"}} IN
    IF solid = {} THEN <<>>
    ELSE SubSeq(text, CHOOSE i \in solid : \A j \in solid : i <= j,
                      CHOOSE i \in solid : \A j \in solid : j <= i)

GotInfo(p) == pc[p] = "ret" /\ loc[p].kind = "GetInfo"

C23_WitnessVerbatim ==
    \E p \in Tasks :
       /\ GotInfo(p)
       /\ DOMAIN loc[p].info = {<<"k">>, <<"n">>}
       /\ loc[p].info[<<"k">>] = <<"a", "=", "b">>
       /\ loc[p].info[<<"n">>] = <<"a", "\n", "2", "5", "0", " ", "O", "K">>

\* C23 witness: two lines with the key k gave one pair, that of the second
C23_WitnessSameKey ==
    \E p \in Tasks :
       /\ GotInfo(p)
       /\ Len(GrammarPairs(loc[p].reply, <<>>)) = 2
       /\ loc[p].info = MapPut(EmptyMap, <<"k">>, <<"v", " ", "w">>)

\* ------------------------------------------------------------------ C31
\* C31 (as stated): a cap keeps the deliveries in flight below what the
\* requests served can hand over, however slow the receiver is.
C31_DeliveriesBelowHandOvers == inFlightHooks < MaxInFlight

\* the step of a request that calls sendWebhook
HandsOver(p) == loc[p].kind # "" /\ Len(loc'[p].emitted) = Len(loc[p].emitted) + 1

C31_HandOverStep ==
    \A p \in Tasks : HandsOver(p) =>
       LET call == loc'[p].emitted[Len(loc'[p].emitted)] IN
       /\ call.spawned = (webhook /\ call.event \in webhookEvents)
       /\ inFlightHooks' = inFlightHooks + (IF call.spawned THEN 1 ELSE 0)

\* C31 (amended): no cap: every sendWebhook of an allowed event with a
\* webhook configured starts one more delivery at once, however many are in
\* flight, and a delivery leaves only when its own goroutine ends.
C31_EveryHandOverStartsADelivery ==
    [](inFlightHooks >= 0) /\ [][C31_HandOverStep]_vars

\* C31 witness: as many deliveries in flight as requests were let in, none
\* of them ended, and the requests that handed them over are done
C31_Witness ==
    /\ inFlightHooks = MaxInFlight
    /\ \A p \in Tasks : pc[p] \in {"idle", "done"}
    /\ \E p \in Tasks : pc[p] = "done" /\ loc[p].emitted # <<>>

\* ------------------------------------------------------------------ C32
\* C32: after the termination signal the control connection is eventually
\* closed: once server.Shutdown has completed or timed out, Close is called
\* on the link and the process ends with the link not connected.
C32_SignalLeadsToClosedLink ==
    (mainPc = "shutdown") ~> (mainPc = "exited" /\ conn = "nil")

\* ------------------------------------------------------------------ C33
\* C33: a GetStatus whose Connect returned nil does not fail with "not
\* connected": its GETINFO runs on the connected link whatever the other
\* callers do between the two steps.
C33_GetStatusNeverNotConnected ==
    \A p \in Tasks :
       (loc[p].kind = "GetStatus" /\ pc[p] = "ret") => loc[p].err # "not connected"

\* ------------------------------------------------------------------ C37
\* C37: whenever c.mu is free and c.conn is not nil, c.conn is an open
\* connection, authenticated if a password is configured; and GETINFO and
\* SIGNAL are only ever written on such a connection.
C37_FreeLinkIsOpenAndAuthenticated ==
    /\ (mu = 0 /\ conn # "nil") => (conn = "open" /\ (password => authed))
    /\ \A p \in Tasks :
          pc[p] \in {"g_write", "s_write"} => (conn = "open" /\ (password => authed))

\* ------------------------------------------------------------------ C38
\* the "250 OK" lines among the given lines
EndLines(reply) == {i \in 1..Len(reply) : Content(reply[i]) = Str250OK}

\* C38: GetInfo returns a mapping only when it has read a line that begins
\* with "250 OK"; until then it goes on reading. A line of another prefix
\* than "250 OK", "250-" and "250+" is skipped: the lines after it still give
\* their pairs, it gives none, and GetInfo returns no error because of it.
C38_OtherLinesAreSkipped ==
    \A p \in Tasks :
       /\ (pc[p] = "gi_read" /\ EndLines(rx) = {}) => ~ENABLED GetInfoReadReply(p)
       /\ GotInfo(p) =>
             /\ EndLines(loc[p].reply) # {}
             /\ loc[p].err = ""
             /\ DOMAIN loc[p].info =
                   {pair.key : pair \in {GrammarPairs(loc[p].reply, <<>>)[i] :
                                            i \in 1..Len(GrammarPairs(loc[p].reply, <<>>))}}

\* C38 witness: a reply with "552 ..." before the line of j and "250 OK"
\* gave the pair of j and no error
C38_Witness ==
    \E p \in Tasks :
       /\ GotInfo(p)
       /\ Content(loc[p].reply[1]) = Str552
       /\ loc[p].info = MapPut(EmptyMap, <<"j">>, <<"v">>)
       /\ loc[p].err = ""

\* C38 witness: the peer sent "552 ..." and no "250 OK": GetInfo is still reading
C38_WitnessWaiting ==
    \E p \in Tasks :
       /\ pc[p] = "gi_read" /\ rx = << ReplyLine(Str552) >>
       /\ ~ENABLED GetInfoReadReply(p)

C39_WitnessStatus ==
    \E p \in Tasks :
       /\ StatusDone(p) /\ loc[p].resp = 200
       /\ loc[p].json.circuit_established /\ loc[p].json.num_circuits = 0

\* ------------------------------------------------------------------ C40
\* C40: every result Check returns has IsTor only with Success; without
\* Success it has IsTor false and no IP; and with Success it names the
\* endpoint that produced it, the one of the last probe made.
C40_ResultWellFormed ==
    e_pc = "done" =>
       /\ e_result.IsTor => e_result.Success
       /\ ~e_result.Success => (~e_result.IsTor /\ e_result.IP = "")
       /\ e_result.Success =>
             /\ e_attempts # <<>>
             /\ e_result.Endpoint = e_endpoints[LastAttempt.idx]
             /\ LastAttempt.Success
             /\ e_result.IsTor = LastAttempt.IsTor /\ e_result.IP = LastAttempt.IP

\* C40 witness: Check returned the verified result of the second endpoint,
\* with its IP, after the first endpoint failed
C40_Witness ==
    /\ e_pc = "done"
    /\ e_result.Success /\ e_result.IsTor /\ e_result.IP # ""
    /\ Len(e_endpoints) = 2 /\ e_result.Endpoint = e_endpoints[2]
    /\ e_endpoints[1] # e_endpoints[2]

\* C40 witness: Check returned the failure of all endpoints after a probe of each
C40_WitnessFailed ==
    /\ e_pc = "done" /\ ~e_result.Success /\ e_attempts # <<>>
    /\ ~e_result.IsTor /\ e_result.IP = ""

EmitsHealthChanged(p) ==
    /\ Len(loc'[p].emitted) = Len(loc[p].emitted) + 1
    /\ loc'[p].emitted[Len(loc'[p].emitted)].event = EventHealthChanged

\* the class a health-changed event carries
CarriedClass(p) ==
    IF loc'[p].emitted[Len(loc'[p].emitted)].details.Healthy THEN "healthy" ELSE "unhealthy"

\* a health-changed event is emitted by one request at a time, when the stored
\* class is the opposite of the class it carries, and the step stores the class
\* it carries; once set, the stored class changes on no other step
C35_EmissionStep ==
    /\ \A p \in Tasks :
          EmitsHealthChanged(p) =>
             /\ healthMu = p
             /\ previousHealthy \in {"healthy", "unhealthy"} \ {CarriedClass(p)}
             /\ previousHealthy' = CarriedClass(p)
             /\ \A q \in Tasks \ {p} : ~EmitsHealthChanged(q)
    /\ (previousHealthy # "unset" /\ previousHealthy' # previousHealthy) =>
          \E p \in Tasks : EmitsHealthChanged(p)

\* C35: in the order in which they are emitted, consecutive health-changed
\* events carry alternating classes, for any interleaving of concurrent /health
\* requests: each emission happens under healthMu with the stored class opposite
\* to the carried one and leaves the carried class stored, and the stored class
\* stays as it is until the next emission.
C35_HealthChangedAlternates == [][C35_EmissionStep]_vars

\* C35 witness: two /health requests have answered, one after emitting
\* health-changed to unhealthy, the other after emitting the next one, to healthy
C35_Witness ==
    \E p, q \in Tasks :
       /\ HealthDone(p) /\ HealthDone(q)
       /\ EmittedOf(p, EventHealthChanged) # {} /\ loc[p].class = "unhealthy"
       /\ loc[p].seenPrev = "healthy"
       /\ EmittedOf(q, EventHealthChanged) # {} /\ loc[q].class = "healthy"
       /\ loc[q].seenPrev = "unhealthy"
       /\ previousHealthy = "healthy"

\* ------------------------------------------------------------------ C34
\* C34: concurrent /health checks apply their classes to the stored class in
\* the order in which their snapshots were read, so that once the checks in
\* flight have completed the stored class is the class of the most recent
\* observation. Stated for two completed checks whose order of observation
\* shows in the link: p's GetStatus failed, which leaves the link closed or nil,
\* q's succeeded, and the link is open, so q's snapshot is the later one.
C34_StoredClassIsLatestObservation ==
    \A p, q \in Tasks :
       (/\ HealthDone(p) /\ loc[p].err # ""
        /\ HealthDone(q) /\ loc[q].err = ""
        /\ conn = "open")
          => previousHealthy = loc[q].class

====
